---- MODULE Spec2Model ----
(***************************************************************************)
(* Fuzzy-matching reconciliation of NYC job postings against payroll and   *)
(* Lighthouse benchmark data.                                              *)
(*                                                                         *)
(* Strings are sequences of one-character strings.  A nullable string is   *)
(* either such a sequence or None; a nullable number is NoNum or a         *)
(* rational <<numerator, denominator>>.                                    *)
(***************************************************************************)
EXTENDS Integers, Sequences, FiniteSets, TLC

VARIABLES
    rawAgency,   \* normalizer input: agency field (nullable string)
    rawTitle,    \* normalizer input: title field (string)
    normKind,    \* which normalizer produced normKey ("none" before any ran)
    normKey,     \* the key the normalizer produced
    normAgain,   \* the key obtained by normalizing normKey once more
    strA,        \* scorer input: first sequence
    strB,        \* scorer input: second sequence
    scoreAB,     \* SequenceMatcher(None, strA, strB).ratio()
    scoreBA,     \* SequenceMatcher(None, strB, strA).ratio()
    pass,        \* reconciliation pass: "payroll" or "lighthouse"
    stage,       \* position of the pass in its code
    jobs,        \* left side: the job postings table, a sequence of rows
    fuzzy_col,   \* payroll pass: the fuzzy_match_string column of jobs
    payroll_file,        \* "absent", "unreadable" or "ok"
    payroll_df,          \* right side A: rows of the processed payroll file
    lighthouse_processed,\* right side B: rows of the processed benchmark
    columns,     \* "ok", or which table lacks a required column
    lookup_keys, \* keys of the lookup dict, in insertion order
    lookup,      \* the lookup dict: key -> payload
    resolved,    \* what the resolver returned for each job row so far
    output,      \* the returned table, NoTable until the pass returns
    fault,       \* the job row whose scoring raises an exception, 0 for none
    match_stats, \* the statistics the pass computed, NoStats until it does
    saved,       \* the table written to the processed-data directory
    steps,         \* the stages the call has entered so far, in order, each with its row
    raw_payroll,        \* payroll processor input: the raw payroll rows
    payroll_processed,  \* the payroll table as the processor has it so far
    agg_stage,          \* position of the payroll processor in its code
    agg_keys,           \* keys of payroll_salary_lookup built from the table
    agg_lookup,         \* payroll_salary_lookup built from the table
    thr_pass,      \* threshold comparison: the pass whose resolver is used
    thr_jobs,      \* threshold comparison: the job rows
    thr_rows,      \* threshold comparison: the right-side rows
    threshold_lo,  \* the lower match threshold, in percent
    threshold_hi,  \* the raised match threshold, in percent
    thr_stage,     \* "start" until both resolutions are done
    matched_lo,    \* the job rows matched at threshold_lo
    matched_hi,    \* the job rows matched at threshold_hi
    runs,             \* repeated run: 1 in the first call of the pass, 2 in the second
    previous_output,  \* repeated run: the table the first call returned
    scan_left,        \* one resolution: the left key
    scan_rows,        \* one resolution: the payroll rows the candidates come from
    scan_threshold,   \* one resolution: the match threshold, in percent
    scan_payroll,     \* what the scan of find_best_match_with_salary returned
    scan_lighthouse,  \* what the scan of find_best_lighthouse_match returned
    source_name,   \* fetcher: BaseDataPipeline.source_name, its '_'-separated parts
    clock,         \* the wall clock, in hours
    raw_dir,       \* RAW_DATA_DIRECTORY: the raw files, each a stem and its records
    metadata_dir,  \* METADATA_DIRECTORY: the metadata files of the fetches
    api_total,     \* the number of records the API holds
    fetch_pc,      \* fetch_data: "idle", "loop", "save" or "returned"
    use_cache,     \* fetch_data: its use_cache argument
    max_rows,      \* fetch_data: its max_rows argument, 0 for None
    cached_file,   \* fetch_data: what find_recent_raw_file returned
    offset,        \* fetch_data: the offset of the next request
    batch_size,    \* fetch_data: the limit of the next request
    all_data,      \* fetch_data: the records fetched so far
    requested,     \* the $offset and $limit of the requests this call has sent
    request_failed, \* a request of this call raised in fetch_batch
    returned,      \* the records of the DataFrame the call returned
    calls,         \* the number of calls of fetch_data so far
    task_state,    \* DAG run: the state of each task instance
    try_number     \* DAG run: how many times each task has been started

normVars == <<rawAgency, rawTitle, normKind, normKey, normAgain>>
scoreVars == <<strA, strB, scoreAB, scoreBA>>
reconVars == <<pass, stage, jobs, fuzzy_col, payroll_file, payroll_df,
               lighthouse_processed, columns, fault, lookup_keys, lookup,
               resolved, output, match_stats, saved, steps>>
aggVars == <<raw_payroll, payroll_processed, agg_stage, agg_keys, agg_lookup>>
thrVars == <<thr_pass, thr_jobs, thr_rows, threshold_lo, threshold_hi, thr_stage,
             matched_lo, matched_hi>>
rerunVars == <<runs, previous_output>>
scanVars == <<scan_left, scan_rows, scan_threshold, scan_payroll, scan_lighthouse>>
fetchVars == <<source_name, clock, raw_dir, metadata_dir, api_total, fetch_pc, use_cache, max_rows,
               cached_file, offset, batch_size, all_data, requested,
               request_failed, returned, calls>>
dagVars == <<task_state, try_number>>
vars == <<normVars, scoreVars, reconVars, aggVars, thrVars, rerunVars, scanVars, fetchVars, dagVars>>

-----------------------------------------------------------------------------
(* Bounds *)

MaxNormLen == 4
MaxScoreLen == 3
MaxJobs == 2
MaxRows == 2
MaxPayrollRows == 3
MaxApi == 3
MaxCalls == 2
MaxClock == 24

-----------------------------------------------------------------------------
(* Null values *)

None == <<"None">>
NoNum == <<>>
\* no table: a value that differs from every table of rows
NoTable == <<[no_table |-> TRUE]>>
NoStats == [no_stats |-> TRUE]
Num(n) == <<n, 1>>

-----------------------------------------------------------------------------
(* Characters *)

LowerChars == {"a", "b", "c", "d"}
UpperChars == {"A", "B"}
SpaceChars == {" "}
PunctChars == {"-"}

isalnum(c) == c \in LowerChars \cup UpperChars
isspace(c) == c \in SpaceChars
\* regex class [\w\s]: word characters (alphanumerics and '_') and whitespace
IsWordOrSpace(c) == isalnum(c) \/ c = "_" \/ isspace(c)
IsAlnumOrSpace(c) == isalnum(c) \/ isspace(c)

LowerChar(c) == IF c = "A" THEN "a" ELSE IF c = "B" THEN "b" ELSE c

Strings(alphabet, n) == UNION {[1..k -> alphabet] : k \in 0..n}

-----------------------------------------------------------------------------
(* String primitives used by the normalizers *)

to_lowercase(s) == [i \in 1..Len(s) |-> LowerChar(s[i])]

RECURSIVE LStrip(_)
LStrip(s) ==
    IF s # <<>> /\ isspace(Head(s)) THEN LStrip(Tail(s)) ELSE s

RECURSIVE RStrip(_)
RStrip(s) ==
    IF s # <<>> /\ isspace(s[Len(s)]) THEN RStrip(SubSeq(s, 1, Len(s) - 1)) ELSE s

strip_chars(s) == RStrip(LStrip(s))

\* .str.replace_all(r'[^\w\s]', '')
RemoveSpecial(s) == SelectSeq(s, IsWordOrSpace)

\* .str.replace_all(r'\s+', '_')
RECURSIVE ReplaceWhitespaceRuns(_)
ReplaceWhitespaceRuns(s) ==
    IF s = <<>> THEN <<>>
    ELSE IF isspace(Head(s))
         THEN <<"_">> \o ReplaceWhitespaceRuns(LStrip(Tail(s)))
         ELSE <<Head(s)>> \o ReplaceWhitespaceRuns(Tail(s))

\* str.split(): the maximal runs of non-whitespace characters, in order
RECURSIVE SplitFrom(_, _)
SplitFrom(s, cur) ==
    IF s = <<>> THEN (IF cur = <<>> THEN <<>> ELSE <<cur>>)
    ELSE IF isspace(Head(s))
         THEN (IF cur = <<>> THEN <<>> ELSE <<cur>>) \o SplitFrom(Tail(s), <<>>)
         ELSE SplitFrom(Tail(s), Append(cur, Head(s)))

split(s) == SplitFrom(s, <<>>)

\* '_'.join(tokens)
RECURSIVE JoinUnderscore(_)
JoinUnderscore(tokens) ==
    IF tokens = <<>> THEN <<>>
    ELSE IF Len(tokens) = 1 THEN tokens[1]
    ELSE tokens[1] \o <<"_">> \o JoinUnderscore(Tail(tokens))

-----------------------------------------------------------------------------
(* Normalizers *)

\* the regex chain shared by the fuzzy_match_string builders
RegexChain(s) == ReplaceWhitespaceRuns(RemoveSpecial(s))

\* jobs and payroll processors: key from two fields; null if either is null
create_fuzzy_matching_string(agency, title) ==
    IF agency = None \/ title = None THEN None
    ELSE RegexChain(strip_chars(to_lowercase(agency)) \o <<"_">>
                    \o strip_chars(to_lowercase(title)))

\* lighthouse processor: lighthouse_fuzzy_match_string from one field
lighthouse_fuzzy_match_string(title) ==
    IF title = None THEN None
    ELSE RegexChain(strip_chars(to_lowercase(title)))

\* title cleaner inside generate_posting_duration_dataset
clean_title(title) ==
    JoinUnderscore(split(SelectSeq(strip_chars(to_lowercase(title)), IsAlnumOrSpace)))

-----------------------------------------------------------------------------
(* Similarity scorer: difflib.SequenceMatcher(None, a, b).ratio()          *)
(* Indices are 1-based; a range [lo, hi) holds positions lo .. hi-1.       *)

\* rationals are pairs <<numerator, denominator>> with denominator > 0
RatLess(x, y) == x[1] * y[2] < y[1] * x[2]
RatLeq(x, y) == x[1] * y[2] <= y[1] * x[2]
RatEq(x, y) == x[1] * y[2] = y[1] * x[2]

MaxOf(S) == CHOOSE x \in S : \A y \in S : y <= x
MinOf(S) == CHOOSE x \in S : \A y \in S : x <= y

\* autojunk: with 200 or more elements in b, an element that makes up more
\* than 1% of b (plus one) is "popular" and is left out of the index b2j
AutojunkLen == 200

Popular(b) ==
    IF Len(b) >= AutojunkLen
    THEN {c \in {b[j] : j \in 1..Len(b)} :
             Cardinality({j \in 1..Len(b) : b[j] = c}) > (Len(b) \div 100) + 1}
    ELSE {}

MinNum(x, y) == IF x <= y THEN x ELSE y

\* find_longest_match keeps, for each position i of a, the map newj2len:
\* newj2len[j] = j2len[j-1] + 1 when a[i] = b[j] and b[j] is indexed in b2j.
\* Unfolded, newj2len[j] is the length of the longest run of equal, indexed
\* elements that ends at a[i], b[j] and stays inside [alo, i] x [blo, j].
J2LenSkipLast(a, b, popular, alo, blo, i, j) ==
    MaxOf({k \in 0..MinNum(i - alo + 1, j - blo + 1) :
              \A t \in 0..(k - 1) :
                  /\ a[i - t] = b[j - t]
                  /\ b[j - t] \notin popular
                  /\ j - t < Len(b)})

J2Len(a, b, popular, alo, blo, i, j) ==
    MaxOf({k \in 0..MinNum(i - alo + 1, j - blo + 1) :
              \A t \in 0..(k - 1) : a[i - t] = b[j - t] /\ b[j - t] \notin popular})

\* the loops of find_longest_match replace best only by a strictly longer
\* match: of the longest runs the one ending at the smallest i is kept, and
\* for that i the one ending at the smallest j
LongestIndexedMatch(a, b, popular, alo, ahi, blo, bhi) ==
    LET I == alo..(ahi - 1)
        J == blo..(bhi - 1)
        lens == {J2Len(a, b, popular, alo, blo, i, j) : i \in I, j \in J}
        mk == IF lens = {} THEN 0 ELSE MaxOf(lens)
        ik == MinOf({i \in I : \E j \in J : J2Len(a, b, popular, alo, blo, i, j) = mk})
        jk == MinOf({j \in J : J2Len(a, b, popular, alo, blo, ik, j) = mk})
    IN IF mk = 0 THEN [i |-> alo, j |-> blo, size |-> 0]
       ELSE [i |-> ik - mk + 1, j |-> jk - mk + 1, size |-> mk]

\* "extend the best by non-junk elements on each end": no element is junk,
\* so equal elements are taken on, popular ones included
ExtendBack(a, b, alo, blo, best) ==
    LET n == MaxOf({k \in 0..MinNum(best.i - alo, best.j - blo) :
                       \A t \in 1..k : a[best.i - t] = b[best.j - t]})
    IN [i |-> best.i - n, j |-> best.j - n, size |-> best.size + n]

ExtendForward(a, b, ahi, bhi, best) ==
    LET ea == best.i + best.size
        eb == best.j + best.size
        n == MaxOf({k \in 0..MinNum(ahi - ea, bhi - eb) :
                       \A t \in 0..(k - 1) : a[ea + t] = b[eb + t]})
    IN [best EXCEPT !.size = best.size + n]

find_longest_match(a, b, popular, alo, ahi, blo, bhi) ==
    ExtendForward(a, b, ahi, bhi,
        ExtendBack(a, b, alo, blo,
            LongestIndexedMatch(a, b, popular, alo, ahi, blo, bhi)))

\* get_matching_blocks: total size of the blocks found by taking the longest
\* match and recursing on the pieces to its left and to its right
RECURSIVE MatchedOverlapping(_, _, _, _, _, _, _)
MatchedOverlapping(a, b, popular, alo, ahi, blo, bhi) ==
    LET m == find_longest_match(a, b, popular, alo, ahi, blo, bhi)
    IN IF m.size = 0 THEN 0
       ELSE m.size
            + (IF alo < m.i /\ blo < m.j
               THEN MatchedOverlapping(a, b, popular, alo, m.i, blo, m.j) ELSE 0)
            + (IF m.i + m.size < ahi
               THEN MatchedOverlapping(a, b, popular, m.i + m.size, ahi, blo, bhi)
               ELSE 0)

RECURSIVE MatchedLength(_, _, _, _, _, _, _)
MatchedLength(a, b, popular, alo, ahi, blo, bhi) ==
    LET m == find_longest_match(a, b, popular, alo, ahi, blo, bhi)
    IN IF m.size = 0 THEN 0
       ELSE m.size
            + (IF alo < m.i /\ blo < m.j
               THEN MatchedLength(a, b, popular, alo, m.i, blo, m.j) ELSE 0)
            + (IF m.i + m.size < ahi /\ m.j + m.size < bhi
               THEN MatchedLength(a, b, popular, m.i + m.size, ahi, m.j + m.size, bhi)
               ELSE 0)

Matches(a, b) ==
    MatchedLength(a, b, Popular(b), 1, Len(a) + 1, 1, Len(b) + 1)

\* ratio(): 2.0 * matches / length, and 1.0 when both sequences are empty
ratio(a, b) ==
    IF Len(a) + Len(b) = 0 THEN <<1, 1>>
    ELSE <<2 * Matches(a, b), Len(a) + Len(b)>>

-----------------------------------------------------------------------------
(* Scorer specification: a pair of sequences is scored in both orders.     *)

ScoreAlphabet == {"a", "b", "c"}

\* a string long enough for autojunk, and the pairs it is scored in
LongString == [i \in 1..AutojunkLen |-> "a"]

LongPairs ==
    { <<LongString, LongString>>,
      <<<<"a">>, LongString>>,
      <<<<"b", "a">>, LongString>>,
      <<LongString, <<"b", "a">>>> }

ScoreIdle ==
    /\ strA = <<>>
    /\ strB = <<>>
    /\ scoreAB = NoNum
    /\ scoreBA = NoNum

ScoreInit ==
    /\ \E p \in (Strings(ScoreAlphabet, MaxScoreLen)
                    \X Strings(ScoreAlphabet, MaxScoreLen)) \cup LongPairs :
          /\ strA = p[1]
          /\ strB = p[2]
    /\ scoreAB = NoNum
    /\ scoreBA = NoNum

ScorePair ==
    /\ scoreAB = NoNum
    /\ scoreAB' = ratio(strA, strB)
    /\ scoreBA' = ratio(strB, strA)
    /\ UNCHANGED <<strA, strB>>
    /\ UNCHANGED <<normVars, reconVars, aggVars, thrVars, rerunVars, scanVars, fetchVars, dagVars>>

-----------------------------------------------------------------------------
(* Normalizer specification: a raw field is normalized, then the key is    *)
(* normalized again by the same normalizer.                                *)

NormAlphabet == {"a", "B", " ", "_", "-"}
AgencyPool == {None, <<"A", " ">>, <<"c">>}

NormIdle ==
    /\ rawAgency = None
    /\ rawTitle = <<>>
    /\ normKind = "none"
    /\ normKey = None
    /\ normAgain = None

NormInit ==
    /\ rawAgency \in AgencyPool
    /\ rawTitle \in Strings(NormAlphabet, MaxNormLen)
    /\ normKind = "none"
    /\ normKey = None
    /\ normAgain = None

BuildFuzzyKey ==
    /\ normKind = "none"
    /\ normKind' = "fuzzy"
    /\ normKey' = create_fuzzy_matching_string(rawAgency, rawTitle)
    /\ UNCHANGED <<rawAgency, rawTitle, normAgain>>
    /\ UNCHANGED <<scoreVars, reconVars, aggVars, thrVars, rerunVars, scanVars, fetchVars, dagVars>>

BuildLighthouseKey ==
    /\ normKind = "none"
    /\ normKind' = "regex"
    /\ normKey' = lighthouse_fuzzy_match_string(rawTitle)
    /\ UNCHANGED <<rawAgency, rawTitle, normAgain>>
    /\ UNCHANGED <<scoreVars, reconVars, aggVars, thrVars, rerunVars, scanVars, fetchVars, dagVars>>

CleanTitle ==
    /\ normKind = "none"
    /\ normKind' = "clean"
    /\ normKey' = clean_title(rawTitle)
    /\ UNCHANGED <<rawAgency, rawTitle, normAgain>>
    /\ UNCHANGED <<scoreVars, reconVars, aggVars, thrVars, rerunVars, scanVars, fetchVars, dagVars>>

\* the regex builders re-applied to a key: the key is the single field
RenormalizeRegex ==
    /\ normKind \in {"fuzzy", "regex"}
    /\ normKey # None
    /\ normAgain = None
    /\ normAgain' = lighthouse_fuzzy_match_string(normKey)
    /\ UNCHANGED <<rawAgency, rawTitle, normKind, normKey>>
    /\ UNCHANGED <<scoreVars, reconVars, aggVars, thrVars, rerunVars, scanVars, fetchVars, dagVars>>

RenormalizeClean ==
    /\ normKind = "clean"
    /\ normAgain = None
    /\ normAgain' = clean_title(normKey)
    /\ UNCHANGED <<rawAgency, rawTitle, normKind, normKey>>
    /\ UNCHANGED <<scoreVars, reconVars, aggVars, thrVars, rerunVars, scanVars, fetchVars, dagVars>>

-----------------------------------------------------------------------------
(* Reconciliation: inputs *)

PayrollThresholdPct == 85
LighthouseThresholdPct == 70

\* job postings: agency, business_title, posting_duration_days
JobPool ==
    { [agency |-> <<"A", " ">>, business_title |-> <<"b", "c">>,
       posting_duration_days |-> Num(45)],
      [agency |-> <<"A", " ">>, business_title |-> <<"B", "c", "d">>,
       posting_duration_days |-> NoNum],
      [agency |-> <<"A", " ">>, business_title |-> None,
       posting_duration_days |-> Num(45)],
      [agency |-> <<"A", " ">>, business_title |-> <<"-">>,
       posting_duration_days |-> Num(10)] }

\* processed payroll rows: fuzzy_match_string, salary_min, salary_max
PayrollRowPool ==
    { [fuzzy_match_string |-> <<"a", "_", "b", "c">>,
       salary_min |-> Num(1), salary_max |-> Num(2)],
      [fuzzy_match_string |-> <<"a", "_", "b", "c", "d">>,
       salary_min |-> Num(2), salary_max |-> Num(4)],
      [fuzzy_match_string |-> <<"a", "_", "b", "c", "a">>,
       salary_min |-> Num(3), salary_max |-> Num(3)],
      [fuzzy_match_string |-> <<"a", "_", "b", "c">>,
       salary_min |-> Num(3), salary_max |-> Num(4)],
      [fuzzy_match_string |-> <<"a", "_", "b", "c", "d">>,
       salary_min |-> NoNum, salary_max |-> NoNum] }

\* processed benchmark rows: lighthouse_job_title,
\* lighthouse_median_posting_duration, lighthouse_total_postings
LighthouseRowPool ==
    { [lighthouse_job_title |-> <<"b", "c">>,
       lighthouse_median_posting_duration |-> Num(30),
       lighthouse_total_postings |-> Num(1)],
      [lighthouse_job_title |-> <<"B", "c", "d">>,
       lighthouse_median_posting_duration |-> Num(0),
       lighthouse_total_postings |-> Num(2)],
      [lighthouse_job_title |-> <<"b", "c", "a">>,
       lighthouse_median_posting_duration |-> NoNum,
       lighthouse_total_postings |-> Num(3)],
      [lighthouse_job_title |-> <<"-">>,
       lighthouse_median_posting_duration |-> Num(30),
       lighthouse_total_postings |-> Num(4)],
      [lighthouse_job_title |-> <<"B", "c">>,
       lighthouse_median_posting_duration |-> Num(-20),
       lighthouse_total_postings |-> Num(5)] }

SeqsUpTo(S, n) == UNION {[1..k -> S] : k \in 0..n}

\* Python truthiness of a nullable string
Truthy(s) == s # None /\ s # <<>>

-----------------------------------------------------------------------------
(* Reconciliation: lookup construction *)

RECURSIVE SumNum(_)
SumNum(xs) == IF xs = <<>> THEN 0 ELSE Head(xs)[1] + SumNum(Tail(xs))

\* payroll_df.iter_rows(named=True) with row.get('fuzzy_match_string'): the
\* get gives None for every row of a table that has no such column
iter_rows(df, cols) ==
    IF cols = "payroll"
    THEN [i \in 1..Len(df) |-> [df[i] EXCEPT !.fuzzy_match_string = None]]
    ELSE df

\* the row loop of calculate_fuzzy_matches_with_payroll: rows with a key and
\* both salaries are appended to the lists kept under their key
RECURSIVE AccumulatePayroll(_, _, _)
AccumulatePayroll(rows, keys, acc) ==
    IF rows = <<>> THEN [keys |-> keys, acc |-> acc]
    ELSE LET row == Head(rows)
             k == row.fuzzy_match_string
         IN IF Truthy(k) /\ row.salary_min # NoNum /\ row.salary_max # NoNum
            THEN IF k \in DOMAIN acc
                 THEN AccumulatePayroll(Tail(rows), keys,
                        [acc EXCEPT ![k] =
                            [salaries_min |-> Append(@.salaries_min, row.salary_min),
                             salaries_max |-> Append(@.salaries_max, row.salary_max)]])
                 ELSE AccumulatePayroll(Tail(rows), Append(keys, k),
                        [x \in DOMAIN acc \cup {k} |->
                            IF x = k
                            THEN [salaries_min |-> <<row.salary_min>>,
                                  salaries_max |-> <<row.salary_max>>]
                            ELSE acc[x]])
            ELSE AccumulatePayroll(Tail(rows), keys, acc)

\* the second loop: each key's lists are replaced by their averages
payroll_salary_lookup(rows) ==
    LET built == AccumulatePayroll(rows, <<>>, <<>>)
    IN [keys |-> built.keys,
        data |-> [k \in DOMAIN built.acc |->
                    [avg_min |-> <<SumNum(built.acc[k].salaries_min),
                                   Len(built.acc[k].salaries_min)>>,
                     avg_max |-> <<SumNum(built.acc[k].salaries_max),
                                   Len(built.acc[k].salaries_max)>>]]]

\* the row loop of generate_posting_duration_dataset: every row with a title
\* is stored under its cleaned title, replacing what was stored there
RECURSIVE lighthouse_lookup(_, _, _)
lighthouse_lookup(rows, keys, data) ==
    IF rows = <<>> THEN [keys |-> keys, data |-> data]
    ELSE LET row == Head(rows)
             job_title == row.lighthouse_job_title
         IN IF Truthy(job_title)
            THEN LET k == clean_title(job_title)
                     entry == [original_title |-> job_title,
                               median_duration |-> row.lighthouse_median_posting_duration,
                               total_postings |-> row.lighthouse_total_postings]
                 IN lighthouse_lookup(Tail(rows),
                        IF k \in DOMAIN data THEN keys ELSE Append(keys, k),
                        [x \in DOMAIN data \cup {k} |->
                            IF x = k THEN entry ELSE data[x]])
            ELSE lighthouse_lookup(Tail(rows), keys, data)

-----------------------------------------------------------------------------
(* Reconciliation: resolvers *)

Threshold(pct) == <<pct, 100>>

\* "if payroll_string:" -- only non-empty candidates are scored
payroll_scanned(payroll_string) == payroll_string # <<>>

\* "if score > best_score:"
PayrollAnyPositive(score, best_score) == RatLess(<<0, 1>>, score)

PayrollBetterOrEqual(score, best_score) == RatLeq(best_score, score)

\* a resolver whose tie-break differs between calls
PayrollBetterKeepsLastOnRerun(score, best_score) ==
    IF runs = 2 THEN RatLeq(best_score, score) ELSE RatLess(best_score, score)

payroll_better(score, best_score) == RatLess(best_score, score)

\* the candidate loop of find_best_match_with_salary
RECURSIVE ScanPayroll(_, _, _, _)
ScanPayroll(job_fuzzy_string, keys, k, best) ==
    IF k > Len(keys) THEN best
    ELSE IF payroll_scanned(keys[k])
         THEN LET score == ratio(job_fuzzy_string, keys[k])
              IN IF payroll_better(score, best.best_score)
                 THEN ScanPayroll(job_fuzzy_string, keys, k + 1,
                                  [best_match |-> keys[k], best_score |-> score])
                 ELSE ScanPayroll(job_fuzzy_string, keys, k + 1, best)
         ELSE ScanPayroll(job_fuzzy_string, keys, k + 1, best)

\* "return None, None, None, None"
NoPayrollMatch(key) ==
    [key |-> key, best_match |-> None, best_score |-> NoNum,
     salary_min |-> NoNum, salary_max |-> NoNum]

\* the return taken when the best score is below 0.85
BelowThresholdKeepsScore(key, best) ==
    [key |-> key, best_match |-> None, best_score |-> best.best_score,
     salary_min |-> NoNum, salary_max |-> NoNum]

below_threshold(key, best) == NoPayrollMatch(key)

\* the payroll scan accepting at the lighthouse threshold
PayrollAcceptedAtLighthouseThreshold(best_score) ==
    RatLeq(Threshold(LighthouseThresholdPct), best_score)

\* "if best_score >= 0.85:"
payroll_accepted(best_score) == RatLeq(Threshold(PayrollThresholdPct), best_score)

\* a resolver that reads the salaries under the candidate scanned last
FindBestMatchSalaryOfLastScanned(job_fuzzy_string, keys, data) ==
    IF ~Truthy(job_fuzzy_string) THEN NoPayrollMatch(job_fuzzy_string)
    ELSE LET best == ScanPayroll(job_fuzzy_string, keys, 1,
                                 [best_match |-> None, best_score |-> <<0, 1>>])
         IN IF payroll_accepted(best.best_score)
            THEN [key |-> job_fuzzy_string,
                  best_match |-> best.best_match,
                  best_score |-> best.best_score,
                  salary_min |-> data[keys[Len(keys)]].avg_min,
                  salary_max |-> data[keys[Len(keys)]].avg_max]
            ELSE below_threshold(job_fuzzy_string, best)

find_best_match_with_salary(job_fuzzy_string, keys, data) ==
    IF ~Truthy(job_fuzzy_string) THEN NoPayrollMatch(job_fuzzy_string)
    ELSE LET best == ScanPayroll(job_fuzzy_string, keys, 1,
                                 [best_match |-> None, best_score |-> <<0, 1>>])
         IN IF payroll_accepted(best.best_score)
            THEN [key |-> job_fuzzy_string,
                  best_match |-> best.best_match,
                  best_score |-> best.best_score,
                  salary_min |-> data[best.best_match].avg_min,
                  salary_max |-> data[best.best_match].avg_max]
            ELSE below_threshold(job_fuzzy_string, best)

\* "if lighthouse_title:" -- only non-empty candidates are scored
LighthouseScansAll(lighthouse_title) == TRUE

lighthouse_scanned(lighthouse_title) == lighthouse_title # <<>>

\* "if score > best_score and score >= match_threshold:"
LighthouseBetterAnyScore(score, best_score, match_threshold) ==
    RatLess(best_score, score)

\* the threshold test turned around: "score <= match_threshold"
LighthouseBetterBelowThreshold(score, best_score, match_threshold) ==
    RatLess(best_score, score) /\ RatLeq(score, match_threshold)

lighthouse_better(score, best_score, match_threshold) ==
    RatLess(best_score, score) /\ RatLeq(match_threshold, score)

\* the candidate loop of find_best_lighthouse_match
RECURSIVE ScanLighthouse(_, _, _, _, _, _)
ScanLighthouse(clean_business_title, keys, data, match_threshold, k, best) ==
    IF k > Len(keys) THEN best
    ELSE IF lighthouse_scanned(keys[k])
         THEN LET score == ratio(clean_business_title, keys[k])
              IN IF lighthouse_better(score, best.best_score, match_threshold)
                 THEN ScanLighthouse(clean_business_title, keys, data, match_threshold,
                        k + 1,
                        [best EXCEPT !.best_match = keys[k], !.best_score = score,
                                     !.best_data = data[keys[k]]])
                 ELSE ScanLighthouse(clean_business_title, keys, data, match_threshold,
                        k + 1, best)
         ELSE ScanLighthouse(clean_business_title, keys, data, match_threshold,
                             k + 1, best)

\* best_data = {} : every .get() on it gives None
EmptyData ==
    [original_title |-> None, median_duration |-> NoNum, total_postings |-> NoNum]

find_best_lighthouse_match(business_title, keys, data, match_threshold) ==
    IF ~Truthy(business_title)
    THEN [key |-> None, best_match |-> None, best_score |-> <<0, 1>>,
          best_data |-> EmptyData]
    ELSE ScanLighthouse(clean_title(business_title), keys, data, match_threshold, 1,
                        [key |-> clean_title(business_title), best_match |-> None,
                         best_score |-> <<0, 1>>, best_data |-> EmptyData])

-----------------------------------------------------------------------------
(* Reconciliation: output rows *)

\* df.with_columns of the four payroll columns, row by row
PayrollOutputRow(job, fuzzy, m) ==
    [agency |-> job.agency,
     business_title |-> job.business_title,
     posting_duration_days |-> job.posting_duration_days,
     fuzzy_match_string |-> fuzzy,
     best_payroll_match |-> m.best_match,
     best_match_score |-> m.best_score,
     payroll_salary_min |-> m.salary_min,
     payroll_salary_max |-> m.salary_max]

IsMatchedRow(row) == row.best_payroll_match # None

WithColumnsMatchedOnly(df, fuzzy, matches) ==
    SelectSeq([i \in 1..Len(df) |-> PayrollOutputRow(df[i], fuzzy[i], matches[i])],
              IsMatchedRow)

with_columns(df, fuzzy, matches) ==
    [i \in 1..Len(df) |-> PayrollOutputRow(df[i], fuzzy[i], matches[i])]

\* the four columns as pl.lit(None): no payroll file, or an exception
with_null_columns(df, fuzzy) ==
    [i \in 1..Len(df) |-> PayrollOutputRow(df[i], fuzzy[i], NoPayrollMatch(fuzzy[i]))]

\* actual - expected, and its percentage of expected when expected > 0
duration_variance(actual, expected) ==
    IF actual # NoNum /\ expected # NoNum
    THEN Num(actual[1] - expected[1])
    ELSE NoNum

duration_variance_pct(actual, expected) ==
    IF actual # NoNum /\ expected # NoNum /\ expected[1] > 0
    THEN <<(actual[1] - expected[1]) * 100, expected[1]>>
    ELSE NoNum

\* "match_score if best_match else None"
MatchScoreAlways(m) == m.best_score

lighthouse_match_score(m) == IF Truthy(m.best_match) THEN m.best_score ELSE NoNum

\* combined_row of generate_posting_duration_dataset
combined_row(job, m) ==
    LET matched == Truthy(m.best_match)
        median == IF matched THEN m.best_data.median_duration ELSE NoNum
    IN [agency |-> job.agency,
        business_title |-> job.business_title,
        posting_duration_days |-> job.posting_duration_days,
        lighthouse_match_title |->
            IF matched THEN m.best_data.original_title ELSE None,
        lighthouse_match_score |-> lighthouse_match_score(m),
        lighthouse_median_posting_duration |-> median,
        lighthouse_total_postings |->
            IF matched THEN m.best_data.total_postings ELSE NoNum,
        duration_variance |-> duration_variance(job.posting_duration_days, median),
        duration_variance_pct |->
            duration_variance_pct(job.posting_duration_days, median)]

-----------------------------------------------------------------------------
(* Reconciliation: match statistics *)

\* the non-null values of a column, in row order
NonNull(column) == SelectSeq(column, LAMBDA x : x # NoNum)

RECURSIVE SumRat(_)
SumRat(xs) ==
    IF xs = <<>> THEN <<0, 1>>
    ELSE LET rest == SumRat(Tail(xs))
         IN <<Head(xs)[1] * rest[2] + rest[1] * Head(xs)[2], Head(xs)[2] * rest[2]>>

\* .mean(): over the non-null values, null if there is none
mean(column) ==
    LET xs == NonNull(column)
    IN IF xs = <<>> THEN NoNum
       ELSE <<SumRat(xs)[1], SumRat(xs)[2] * Len(xs)>>

\* the values in non-decreasing order
Sorted(xs) ==
    LET perms == {p \in [1..Len(xs) -> 1..Len(xs)] :
                     /\ \A i, j \in 1..Len(xs) : i # j => p[i] # p[j]
                     /\ \A i \in 1..(Len(xs) - 1) : RatLeq(xs[p[i]], xs[p[i + 1]])}
        p == CHOOSE q \in perms : TRUE
    IN [i \in 1..Len(xs) |-> xs[p[i]]]

\* .median(): over the non-null values, the mean of the two middle ones when
\* their number is even
median(column) ==
    LET xs == Sorted(NonNull(column))
        n == Len(xs)
    IN IF n = 0 THEN NoNum
       ELSE IF n % 2 = 1 THEN xs[(n + 1) \div 2]
       ELSE LET two == SumRat(<<xs[n \div 2], xs[n \div 2 + 1]>>)
            IN <<two[1], two[2] * 2>>

\* .is_not_null().sum()
not_null_sum(column) == Len(NonNull(column))

\* .count(): the number of non-null values; builds of the library older
\* than 0.20 count the null values too
count(column, counts_nulls) ==
    IF counts_nulls THEN Len(column) ELSE Len(NonNull(column))

Column(df, name) == [i \in 1..Len(df) |-> df[i][name]]

\* match_stats of calculate_fuzzy_matches_with_payroll
payroll_match_stats(df, counts_nulls) ==
    [avg_match_score |-> mean(Column(df, "best_match_score")),
     median_match_score |-> median(Column(df, "best_match_score")),
     high_quality_matches_85_plus |-> not_null_sum(Column(df, "best_match_score")),
     total_jobs |-> count(Column(df, "best_match_score"), counts_nulls),
     jobs_with_payroll_salary |-> not_null_sum(Column(df, "payroll_salary_min"))]

\* match_stats of generate_posting_duration_dataset
lighthouse_match_stats(df, counts_nulls) ==
    [total_jobs |-> count(Column(df, "lighthouse_match_score"), counts_nulls),
     jobs_with_lighthouse_match |->
         not_null_sum(Column(df, "lighthouse_match_score")),
     avg_match_score |-> mean(Column(df, "lighthouse_match_score")),
     median_match_score |-> median(Column(df, "lighthouse_match_score")),
     high_quality_matches_80_plus |->
         Len(SelectSeq(NonNull(Column(df, "lighthouse_match_score")),
                       LAMBDA x : RatLeq(<<80, 100>>, x))),
     avg_duration_variance_days |-> mean(Column(df, "duration_variance")),
     avg_duration_variance_pct |-> mean(Column(df, "duration_variance_pct"))]

-----------------------------------------------------------------------------
(* Reconciliation: the two passes *)

\* a stage the call enters, for the whole table (row 0) or for one row
Step(stage_name, side, row) == [stage |-> stage_name, side |-> side, row |-> row]

\* the lookup loop of generate_posting_duration_dataset: each row with a
\* title is cleaned and then stored, row after row
RECURSIVE lighthouse_lookup_steps(_, _)
lighthouse_lookup_steps(rows, k) ==
    IF k > Len(rows) THEN <<>>
    ELSE (IF Truthy(rows[k].lighthouse_job_title)
          THEN <<Step("Normalizing", "right", k), Step("Aggregating", "right", k)>>
          ELSE <<>>)
         \o lighthouse_lookup_steps(rows, k + 1)

\* an iteration that compares the durations before the row is resolved
LighthouseRowStepsVarianceFirst(business_title, i) ==
    <<Step("ComputingVariance", "left", i), Step("Normalizing", "left", i),
      Step("Resolving", "left", i)>>

\* one iteration of the loop over the job rows: the resolver cleans the
\* title (unless it is empty) and scans the candidates, then the duration
\* comparison of the row is computed
lighthouse_row_steps(business_title, i) ==
    (IF Truthy(business_title) THEN <<Step("Normalizing", "left", i)>> ELSE <<>>)
    \o <<Step("Resolving", "left", i), Step("ComputingVariance", "left", i)>>

ReconIdle ==
    /\ pass = "none"
    /\ stage = "idle"
    /\ jobs = <<>>
    /\ fuzzy_col = <<>>
    /\ payroll_file = "absent"
    /\ payroll_df = <<>>
    /\ lighthouse_processed = <<>>
    /\ columns = "ok"
    /\ fault = 0
    /\ lookup_keys = <<>>
    /\ lookup = <<>>
    /\ resolved = <<>>
    /\ output = NoTable
    /\ match_stats = NoStats
    /\ saved = NoTable
    /\ steps = <<>>

ReconInit ==
    /\ pass \in {"payroll", "lighthouse"}
    /\ stage = "start"
    /\ jobs \in SeqsUpTo(JobPool, MaxJobs)
    /\ fuzzy_col = <<>>
    /\ payroll_file \in {"absent", "unreadable", "ok"}
    /\ payroll_df \in SeqsUpTo(PayrollRowPool, MaxRows)
    /\ lighthouse_processed \in SeqsUpTo(LighthouseRowPool, MaxRows)
    /\ columns \in {"ok", "jobs", "lighthouse", "payroll"}
    /\ pass = "payroll" =>
          /\ lighthouse_processed = <<>>
          /\ columns # "lighthouse"
          /\ (payroll_file # "ok" => payroll_df = <<>> /\ columns # "payroll")
          /\ (columns # "ok" => Len(payroll_df) <= 1)
    /\ pass = "lighthouse" =>
          /\ payroll_file = "absent"
          /\ payroll_df = <<>>
          /\ columns # "payroll"
    /\ fault \in 0..Len(jobs)
    /\ fault # 0 =>
          /\ columns = "ok"
          /\ pass = "payroll" => payroll_file = "ok"
    /\ lookup_keys = <<>>
    /\ lookup = <<>>
    /\ resolved = <<>>
    /\ output = NoTable
    /\ match_stats = NoStats
    /\ saved = NoTable
    /\ steps = <<>>

\* JobsPostingProcessor.create_fuzzy_matching_string over the whole table;
\* pl.col("business_title") on a table without that column raises
CreateFuzzyMatchingString ==
    /\ pass = "payroll"
    /\ stage = "start"
    /\ IF columns = "jobs"
       THEN /\ stage' = "failed"
            /\ fuzzy_col' = fuzzy_col
       ELSE /\ fuzzy_col' = [i \in 1..Len(jobs) |->
                               create_fuzzy_matching_string(jobs[i].agency,
                                                            jobs[i].business_title)]
            /\ stage' = "normalized"
    /\ steps' = IF columns = "jobs" THEN steps
                ELSE Append(steps, Step("Normalizing", "left", 0))
    /\ UNCHANGED <<pass, jobs, payroll_file, payroll_df, lighthouse_processed,
                   columns, fault, lookup_keys, lookup, resolved, output,
                   match_stats, saved>>
    /\ UNCHANGED <<normVars, scoreVars, aggVars, thrVars, rerunVars, scanVars, fetchVars, dagVars>>

\* calculate_fuzzy_matches_with_payroll up to the resolver loop: no file, or
\* a file that cannot be read, gives the table with four null columns
LoadPayroll ==
    /\ pass = "payroll"
    /\ stage = "normalized"
    /\ IF payroll_file = "ok"
       THEN LET built == payroll_salary_lookup(iter_rows(payroll_df, columns))
            IN /\ lookup_keys' = built.keys
               /\ lookup' = built.data
               /\ stage' = "resolving"
               /\ output' = output
       ELSE /\ output' = with_null_columns(jobs, fuzzy_col)
            /\ stage' = "done"
            /\ UNCHANGED <<lookup_keys, lookup>>
    /\ steps' = IF payroll_file = "ok"
                THEN Append(steps, Step("Aggregating", "right", 0))
                ELSE steps
    /\ UNCHANGED <<pass, jobs, fuzzy_col, payroll_file, payroll_df,
                   lighthouse_processed, columns, fault, resolved,
                   match_stats, saved>>
    /\ UNCHANGED <<normVars, scoreVars, aggVars, thrVars, rerunVars, scanVars, fetchVars, dagVars>>

\* one element of the list comprehension over the fuzzy_match_string column;
\* an exception raised for the element leaves the try block, and the except
\* clause returns the table with four null columns
ResolvePayrollJob ==
    /\ pass = "payroll"
    /\ stage = "resolving"
    /\ Len(resolved) < Len(jobs)
    /\ IF fault = Len(resolved) + 1
       THEN /\ resolved' = <<>>
            /\ output' = with_null_columns(jobs, fuzzy_col)
            /\ stage' = "done"
       ELSE /\ resolved' = Append(resolved,
                             find_best_match_with_salary(fuzzy_col[Len(resolved) + 1],
                                                         lookup_keys, lookup))
            /\ UNCHANGED <<stage, output>>
    /\ steps' = IF fault = Len(resolved) + 1 THEN steps
                ELSE Append(steps, Step("Resolving", "left", Len(resolved) + 1))
    /\ UNCHANGED <<pass, jobs, fuzzy_col, payroll_file, payroll_df,
                   lighthouse_processed, columns, fault, lookup_keys, lookup,
                   match_stats, saved>>
    /\ UNCHANGED <<normVars, scoreVars, aggVars, thrVars, rerunVars, scanVars, fetchVars, dagVars>>

\* the four result columns are added, the statistics are computed and the
\* table is returned
AttachPayrollColumns ==
    /\ pass = "payroll"
    /\ stage = "resolving"
    /\ Len(resolved) = Len(jobs)
    /\ output' = with_columns(jobs, fuzzy_col, resolved)
    /\ \E counts_nulls \in BOOLEAN :
          match_stats' = payroll_match_stats(with_columns(jobs, fuzzy_col, resolved),
                                             counts_nulls)
    /\ stage' = "done"
    /\ UNCHANGED <<pass, jobs, fuzzy_col, payroll_file, payroll_df,
                   lighthouse_processed, columns, fault, lookup_keys, lookup,
                   resolved, saved, steps>>
    /\ UNCHANGED <<normVars, scoreVars, aggVars, thrVars, rerunVars, scanVars, fetchVars, dagVars>>

\* process_jobs_posting_data saves the table the payroll pass returned
SaveProcessedJobs ==
    /\ pass = "payroll"
    /\ stage = "done"
    /\ saved = NoTable
    /\ saved' = output
    /\ UNCHANGED <<pass, stage, jobs, fuzzy_col, payroll_file, payroll_df,
                   lighthouse_processed, columns, fault, lookup_keys, lookup,
                   resolved, output, match_stats, steps>>
    /\ UNCHANGED <<normVars, scoreVars, aggVars, thrVars, rerunVars, scanVars, fetchVars, dagVars>>

\* generate_posting_duration_dataset up to the row loop: a missing required
\* column returns an empty table, otherwise the lookup is built
BuildLighthouseLookup ==
    /\ pass = "lighthouse"
    /\ stage = "start"
    /\ IF columns = "ok"
       THEN LET built == lighthouse_lookup(lighthouse_processed, <<>>, <<>>)
            IN /\ lookup_keys' = built.keys
               /\ lookup' = built.data
               /\ stage' = "resolving"
               /\ output' = output
       ELSE /\ output' = <<>>
            /\ stage' = "done"
            /\ UNCHANGED <<lookup_keys, lookup>>
    /\ steps' = IF columns = "ok"
                THEN steps \o lighthouse_lookup_steps(lighthouse_processed, 1)
                ELSE steps
    /\ UNCHANGED <<pass, jobs, fuzzy_col, payroll_file, payroll_df,
                   lighthouse_processed, columns, fault, resolved,
                   match_stats, saved>>
    /\ UNCHANGED <<normVars, scoreVars, aggVars, thrVars, rerunVars, scanVars, fetchVars, dagVars>>

\* one iteration of the loop over the job rows; nothing catches an exception
\* raised in it, so the call ends without a table
MatchLighthouseRow ==
    /\ pass = "lighthouse"
    /\ stage = "resolving"
    /\ Len(resolved) < Len(jobs)
    /\ IF fault = Len(resolved) + 1
       THEN /\ resolved' = <<>>
            /\ stage' = "failed"
       ELSE /\ resolved' = Append(resolved,
                             find_best_lighthouse_match(
                                 jobs[Len(resolved) + 1].business_title,
                                 lookup_keys, lookup,
                                 Threshold(LighthouseThresholdPct)))
            /\ stage' = stage
    /\ steps' = IF fault = Len(resolved) + 1 THEN steps
                ELSE steps \o lighthouse_row_steps(
                                  jobs[Len(resolved) + 1].business_title,
                                  Len(resolved) + 1)
    /\ UNCHANGED <<pass, jobs, fuzzy_col, payroll_file, payroll_df,
                   lighthouse_processed, columns, fault, lookup_keys, lookup,
                   output, match_stats, saved>>
    /\ UNCHANGED <<normVars, scoreVars, aggVars, thrVars, rerunVars, scanVars, fetchVars, dagVars>>

\* matches_data becomes the combined table, the statistics are computed, the
\* table is saved and returned; a table built from no rows has no columns,
\* and selecting lighthouse_match_score from it raises
ReturnCombined ==
    /\ pass = "lighthouse"
    /\ stage = "resolving"
    /\ Len(resolved) = Len(jobs)
    /\ IF jobs = <<>>
       THEN /\ stage' = "failed"
            /\ UNCHANGED <<output, match_stats, saved>>
       ELSE LET combined_df == [i \in 1..Len(jobs) |->
                                   combined_row(jobs[i], resolved[i])]
            IN /\ output' = combined_df
               /\ \E counts_nulls \in BOOLEAN :
                     match_stats' = lighthouse_match_stats(combined_df, counts_nulls)
               /\ saved' = combined_df
               /\ stage' = "done"
    /\ UNCHANGED <<pass, jobs, fuzzy_col, payroll_file, payroll_df,
                   lighthouse_processed, columns, fault, lookup_keys, lookup,
                   resolved, steps>>
    /\ UNCHANGED <<normVars, scoreVars, aggVars, thrVars, rerunVars, scanVars, fetchVars, dagVars>>

-----------------------------------------------------------------------------
(* Payroll processor: salary ranges and keys of the right side A           *)

\* raw payroll rows: agency_name, title_description, base_salary_num
RawPayrollPool ==
    { [agency_name |-> <<"A">>, title_description |-> <<"b", "c">>,
       base_salary_num |-> Num(30)],
      [agency_name |-> <<"A">>, title_description |-> <<"b", "c">>,
       base_salary_num |-> Num(35)],
      [agency_name |-> <<"A">>, title_description |-> <<"b", "c">>,
       base_salary_num |-> Num(32)],
      [agency_name |-> <<"A">>, title_description |-> <<"B", "c">>,
       base_salary_num |-> Num(40)],
      [agency_name |-> <<"A">>, title_description |-> <<"b", "d">>,
       base_salary_num |-> NoNum] }

\* df.group_by(['agency_name', 'title_description']): rows of one group
SameRawGroup(r, s) ==
    r.agency_name = s.agency_name /\ r.title_description = s.title_description

\* the non-null base_salary_num values of the group of a row
GroupSalaries(df, row) ==
    {df[j].base_salary_num[1] :
        j \in {i \in 1..Len(df) : SameRawGroup(df[i], row)
                                   /\ df[i].base_salary_num # NoNum}}

\* .count(): the number of non-null values of the group
GroupCount(df, row) ==
    Cardinality({i \in 1..Len(df) : SameRawGroup(df[i], row)
                                     /\ df[i].base_salary_num # NoNum})

\* the aggregation joined back to every row of the table
create_salary_min_max(df) ==
    [i \in 1..Len(df) |->
        LET salaries == GroupSalaries(df, df[i])
        IN [agency_name |-> df[i].agency_name,
            title_description |-> df[i].title_description,
            base_salary_num |-> df[i].base_salary_num,
            salary_min |-> IF salaries = {} THEN NoNum ELSE Num(MinOf(salaries)),
            salary_max |-> IF salaries = {} THEN NoNum ELSE Num(MaxOf(salaries)),
            employee_count_in_role |-> GroupCount(df, df[i]),
            fuzzy_match_string |-> None]]

\* PayrollDataProcessor.create_fuzzy_matching_string over the whole table
payroll_fuzzy_match_column(df) ==
    [i \in 1..Len(df) |->
        [df[i] EXCEPT !.fuzzy_match_string =
            create_fuzzy_matching_string(df[i].agency_name,
                                         df[i].title_description)]]

AggIdle ==
    /\ raw_payroll = <<>>
    /\ payroll_processed = <<>>
    /\ agg_stage = "idle"
    /\ agg_keys = <<>>
    /\ agg_lookup = <<>>

AggInit ==
    /\ raw_payroll \in SeqsUpTo(RawPayrollPool, MaxPayrollRows)
    /\ payroll_processed = <<>>
    /\ agg_stage = "raw"
    /\ agg_keys = <<>>
    /\ agg_lookup = <<>>

\* salary_min, salary_max and employee_count_in_role per raw group
CreateSalaryMinMax ==
    /\ agg_stage = "raw"
    /\ payroll_processed' = create_salary_min_max(raw_payroll)
    /\ agg_stage' = "ranged"
    /\ UNCHANGED <<raw_payroll, agg_keys, agg_lookup>>
    /\ UNCHANGED <<normVars, scoreVars, reconVars, thrVars, rerunVars, scanVars, fetchVars, dagVars>>

\* fuzzy_match_string is added to every row
CreatePayrollFuzzyString ==
    /\ agg_stage = "ranged"
    /\ payroll_processed' = payroll_fuzzy_match_column(payroll_processed)
    /\ agg_stage' = "keyed"
    /\ UNCHANGED <<raw_payroll, agg_keys, agg_lookup>>
    /\ UNCHANGED <<normVars, scoreVars, reconVars, thrVars, rerunVars, scanVars, fetchVars, dagVars>>

\* the jobs processor reads the processed table and builds its lookup
BuildSalaryLookup ==
    /\ agg_stage = "keyed"
    /\ LET built == payroll_salary_lookup(payroll_processed)
       IN /\ agg_keys' = built.keys
          /\ agg_lookup' = built.data
    /\ agg_stage' = "lookup"
    /\ UNCHANGED <<raw_payroll, payroll_processed>>
    /\ UNCHANGED <<normVars, scoreVars, reconVars, thrVars, rerunVars, scanVars, fetchVars, dagVars>>

-----------------------------------------------------------------------------
(* The resolvers at two match thresholds                                   *)

\* match thresholds in percent: the two the code uses, and two above them
ThresholdPool == {LighthouseThresholdPct, PayrollThresholdPct, 90, 100}

\* find_best_match_with_salary with its 0.85 read as a parameter: the key
\* it returns, None below the threshold
find_best_match_at(job_fuzzy_string, keys, threshold) ==
    IF ~Truthy(job_fuzzy_string) THEN None
    ELSE LET best == ScanPayroll(job_fuzzy_string, keys, 1,
                                 [best_match |-> None, best_score |-> <<0, 1>>])
         IN IF RatLeq(threshold, best.best_score) THEN best.best_match ELSE None

\* the key each job row is matched to at a threshold, None for no match
MatchesAt(pass_name, job_rows, right_rows, threshold) ==
    IF pass_name = "payroll"
    THEN LET built == payroll_salary_lookup(right_rows)
         IN [i \in 1..Len(job_rows) |->
                find_best_match_at(
                    create_fuzzy_matching_string(job_rows[i].agency,
                                                 job_rows[i].business_title),
                    built.keys, threshold)]
    ELSE LET built == lighthouse_lookup(right_rows, <<>>, <<>>)
         IN [i \in 1..Len(job_rows) |->
                find_best_lighthouse_match(job_rows[i].business_title,
                                           built.keys, built.data,
                                           threshold).best_match]

MatchedRowsAt(pass_name, job_rows, right_rows, threshold) ==
    {i \in 1..Len(job_rows) :
        MatchesAt(pass_name, job_rows, right_rows, threshold)[i] # None}

\* the job rows and right-side rows that can take part in a match
ThrJobPool == {j \in JobPool : j.business_title # <<"-">>}
ThrPayrollPool == {r \in PayrollRowPool : r.salary_min # NoNum}
ThrLighthousePool ==
    {r \in LighthouseRowPool :
        r.lighthouse_job_title \in {<<"b", "c">>, <<"B", "c", "d">>, <<"b", "c", "a">>}}

ThrIdle ==
    /\ thr_pass = "none"
    /\ thr_jobs = <<>>
    /\ thr_rows = <<>>
    /\ threshold_lo = 0
    /\ threshold_hi = 0
    /\ thr_stage = "idle"
    /\ matched_lo = {}
    /\ matched_hi = {}

ThrInit ==
    /\ thr_pass \in {"payroll", "lighthouse"}
    /\ thr_jobs \in SeqsUpTo(ThrJobPool, MaxJobs)
    /\ thr_rows \in SeqsUpTo(IF thr_pass = "payroll" THEN ThrPayrollPool
                             ELSE ThrLighthousePool, MaxRows)
    /\ threshold_lo \in ThresholdPool
    /\ threshold_hi \in ThresholdPool
    /\ threshold_lo < threshold_hi
    /\ thr_stage = "start"
    /\ matched_lo = {}
    /\ matched_hi = {}

\* the same job rows and right-side rows resolved at both thresholds
ResolveAtThresholds ==
    /\ thr_stage = "start"
    /\ matched_lo' = MatchedRowsAt(thr_pass, thr_jobs, thr_rows,
                                   Threshold(threshold_lo))
    /\ matched_hi' = MatchedRowsAt(thr_pass, thr_jobs, thr_rows,
                                   Threshold(threshold_hi))
    /\ thr_stage' = "done"
    /\ UNCHANGED <<thr_pass, thr_jobs, thr_rows, threshold_lo, threshold_hi>>
    /\ UNCHANGED <<normVars, scoreVars, reconVars, aggVars, rerunVars, scanVars, fetchVars, dagVars>>

-----------------------------------------------------------------------------
(* A pass called a second time on the same tables                          *)

RerunIdle ==
    /\ runs = 1
    /\ previous_output = NoTable

\* the call has returned a table or raised
RunEnded == stage \in {"done", "failed"}

\* the second call: the tables passed in and the files on disk are the
\* same, every local of the call (the lookup, the resolved rows, the
\* returned table) starts afresh
RunAgain ==
    /\ runs = 1
    /\ RunEnded
    /\ runs' = 2
    /\ previous_output' = output
    /\ stage' = "start"
    /\ fuzzy_col' = <<>>
    /\ lookup_keys' = <<>>
    /\ lookup' = <<>>
    /\ resolved' = <<>>
    /\ output' = NoTable
    /\ match_stats' = NoStats
    /\ saved' = NoTable
    /\ steps' = <<>>
    /\ UNCHANGED <<pass, jobs, payroll_file, payroll_df, lighthouse_processed,
                   columns, fault>>
    /\ UNCHANGED <<normVars, scoreVars, aggVars, thrVars, scanVars, fetchVars, dagVars>>

-----------------------------------------------------------------------------
(* One left key resolved by each of the two candidate scans                *)

\* "parks_recreation_parkworker"
ParksRecreationParkworker ==
    <<"p", "a", "r", "k", "s", "_", "r", "e", "c", "r", "e", "a", "t", "i",
      "o", "n", "_", "p", "a", "r", "k", "w", "o", "r", "k", "e", "r">>

\* "parks_dept_park_worker"
ParksDeptParkWorker ==
    <<"p", "a", "r", "k", "s", "_", "d", "e", "p", "t", "_", "p", "a", "r",
      "k", "_", "w", "o", "r", "k", "e", "r">>

\* "sanitation_driver"
SanitationDriver ==
    <<"s", "a", "n", "i", "t", "a", "t", "i", "o", "n", "_", "d", "r", "i",
      "v", "e", "r">>

ScenarioRows ==
    { [fuzzy_match_string |-> ParksDeptParkWorker,
       salary_min |-> Num(40000), salary_max |-> Num(55000)],
      [fuzzy_match_string |-> SanitationDriver,
       salary_min |-> Num(50000), salary_max |-> Num(60000)] }

ScanLeftPool == {ParksRecreationParkworker, <<"a", "_", "b", "c">>, <<>>}

ScanRowPool == ScenarioRows \cup {r \in PayrollRowPool : r.salary_min # NoNum}

NotScanned == [not_scanned |-> TRUE]

\* find_best_match_with_salary, its 0.85 read as a parameter
payroll_style_scan(job_fuzzy_string, keys, data, pct) ==
    IF pct = PayrollThresholdPct
    THEN find_best_match_with_salary(job_fuzzy_string, keys, data)
    ELSE LET m == find_best_match_at(job_fuzzy_string, keys, Threshold(pct))
         IN IF m = None THEN NoPayrollMatch(job_fuzzy_string)
            ELSE [key |-> job_fuzzy_string,
                  best_match |-> m,
                  best_score |-> ratio(job_fuzzy_string, m),
                  salary_min |-> data[m].avg_min,
                  salary_max |-> data[m].avg_max]

\* the candidates of the payroll lookup as entries of a lighthouse lookup
AsLighthouseData(data) ==
    [k \in DOMAIN data |->
        [original_title |-> k,
         median_duration |-> data[k].avg_min,
         total_postings |-> data[k].avg_max]]

\* the candidate loop of find_best_lighthouse_match over an already cleaned key
lighthouse_style_scan(clean_business_title, keys, data, pct) ==
    ScanLighthouse(clean_business_title, keys, AsLighthouseData(data),
                   Threshold(pct), 1,
                   [key |-> clean_business_title, best_match |-> None,
                    best_score |-> <<0, 1>>, best_data |-> EmptyData])

ScanIdle ==
    /\ scan_left = <<>>
    /\ scan_rows = <<>>
    /\ scan_threshold = 0
    /\ scan_payroll = NotScanned
    /\ scan_lighthouse = NotScanned

ScanInit ==
    /\ scan_left \in ScanLeftPool
    /\ scan_rows \in SeqsUpTo(ScanRowPool, MaxRows)
    /\ scan_threshold \in ThresholdPool
    /\ scan_payroll = NotScanned
    /\ scan_lighthouse = NotScanned

ScanPayrollStyle ==
    /\ scan_payroll = NotScanned
    /\ LET built == payroll_salary_lookup(scan_rows)
       IN scan_payroll' = payroll_style_scan(scan_left, built.keys, built.data,
                                             scan_threshold)
    /\ UNCHANGED <<scan_left, scan_rows, scan_threshold, scan_lighthouse>>
    /\ UNCHANGED <<normVars, scoreVars, reconVars, aggVars, thrVars, rerunVars, fetchVars, dagVars>>

ScanLighthouseStyle ==
    /\ scan_lighthouse = NotScanned
    /\ LET built == payroll_salary_lookup(scan_rows)
       IN scan_lighthouse' = lighthouse_style_scan(scan_left, built.keys,
                                                   built.data, scan_threshold)
    /\ UNCHANGED <<scan_left, scan_rows, scan_threshold, scan_payroll>>
    /\ UNCHANGED <<normVars, scoreVars, reconVars, aggVars, thrVars, rerunVars, fetchVars, dagVars>>

-----------------------------------------------------------------------------
(* Data acquisition: the raw-file cache and the paging loop of fetch_data  *)

\* Config.DEFAULT_BATCH_SIZE, scaled down with the API
default_limit == 2

\* find_recent_raw_file(max_age_hours=24) as fetch_data calls it
max_age_hours == 24

\* the clock advances in steps of half the maximum age
TickHours == 12

\* a file stem is the sequence of its parts between '_': words of the
\* source name, then the date and the time of the timestamp
Word(w) == [word |-> w]

IsDate(part) == DOMAIN part = {"date"}

IsTime(part) == DOMAIN part = {"time"}

\* the source names of the two fetchers, and one without '_'
SourceNamePool ==
    { <<Word("nyc"), Word("jobs"), Word("posting")>>,
      <<Word("lighthouse"), Word("data")>>,
      <<Word("jobs")>> }

\* Config.get_timestamp: strftime("%Y%m%d_%H%M%S") of the clock
get_timestamp(now) == <<[date |-> now \div 24], [time |-> now % 24]>>

\* f"{self.source_name}_{timestamp}{suffix}", suffix ""
raw_file_stem(name, now) == name \o get_timestamp(now)

\* json.dump into open(filepath, 'w'): a file of the same name is replaced
save_raw_data(dir, name, now, data) ==
    {f \in dir : f.stem # raw_file_stem(name, now)}
        \cup {[stem |-> raw_file_stem(name, now), data |-> data]}

\* glob(f"{self.source_name}_*.json")
matches_pattern(stem, name) ==
    /\ Len(stem) > Len(name)
    /\ SubSeq(stem, 1, Len(name)) = name

\* the date and time a stem ends with: the files of one source sort by them
StemTime(stem) ==
    IF Len(stem) >= 2 /\ IsDate(stem[Len(stem) - 1]) /\ IsTime(stem[Len(stem)])
    THEN stem[Len(stem) - 1].date * 24 + stem[Len(stem)].time
    ELSE 0

\* sorted(matching_files, reverse=True)
sorted_reverse(files) ==
    IF files = {} THEN <<>>
    ELSE CHOOSE sq \in [1..Cardinality(files) -> files] :
            /\ \A f \in files : \E i \in DOMAIN sq : sq[i] = f
            /\ \A i, j \in DOMAIN sq :
                  i < j => StemTime(sq[i].stem) >= StemTime(sq[j].stem)

\* stem.split('_', 1)[1].split('_')[0] + '_' + ...[1], then strptime: the
\* second and third part of the stem, which must read as date and time
\* (IndexError and ValueError are caught and the file is skipped)
parse_timestamp(stem) ==
    IF Len(stem) < 3 THEN [ok |-> FALSE, file_time |-> 0]
    ELSE LET timestamp_str == <<Tail(stem)[1], Tail(stem)[2]>>
         IN IF IsDate(timestamp_str[1]) /\ IsTime(timestamp_str[2])
            THEN [ok |-> TRUE,
                  file_time |-> timestamp_str[1].date * 24 + timestamp_str[2].time]
            ELSE [ok |-> FALSE, file_time |-> 0]

NoFile == [no_file |-> TRUE]

\* the loop over the sorted files: the first whose time is after the cutoff
RECURSIVE first_recent(_, _)
first_recent(files, cutoff_time) ==
    IF files = <<>> THEN NoFile
    ELSE LET parsed == parse_timestamp(Head(files).stem)
         IN IF parsed.ok /\ parsed.file_time > cutoff_time
            THEN Head(files)
            ELSE first_recent(Tail(files), cutoff_time)

find_recent_raw_file(dir, name, now) ==
    first_recent(sorted_reverse({f \in dir : matches_pattern(f.stem, name)}),
                 now - max_age_hours)

\* "if max_rows and offset + batch_size > max_rows: batch_size = max_rows - offset"
BatchSizeNeverReduced(rows_limit, at, size) == size

next_batch_size(rows_limit, at, size) ==
    IF rows_limit # 0 /\ at + size > rows_limit THEN rows_limit - at ELSE size

\* a loop that never tests the row limit
RowLimitNeverReached(rows_limit, fetched) == FALSE

\* "if max_rows and len(all_data) >= max_rows: break"
row_limit_reached(rows_limit, fetched) == rows_limit # 0 /\ fetched >= rows_limit

\* save_metadata(metadata, f"jobs_posting_fetch_{timestamp}"): a file of the
\* same name is replaced
save_metadata(dir, now, data, rows_limit) ==
    {md \in dir : md.fetch_timestamp # get_timestamp(now)}
        \cup {[fetch_timestamp |-> get_timestamp(now),
                total_records |-> Len(data),
                max_rows_requested |-> rows_limit,
                processed_timestamp |-> now]}

\* the records the API returns for $offset and $limit: records are numbered
\* from 1; a limit below 1 is refused, which fetch_batch turns into []
api_response(total, at, limit) ==
    IF limit < 1 THEN <<>>
    ELSE [i \in 1..(IF total - at < limit
                    THEN (IF total > at THEN total - at ELSE 0)
                    ELSE limit) |-> at + i]

\* fetch_batch: the response, or [] when the request raised
fetch_batch(total, at, limit, request_ok) ==
    IF request_ok THEN api_response(total, at, limit) ELSE <<>>

FetchIdle ==
    /\ source_name = <<>>
    /\ clock = 0
    /\ raw_dir = {}
    /\ metadata_dir = {}
    /\ api_total = 0
    /\ fetch_pc = "idle"
    /\ use_cache = FALSE
    /\ max_rows = 0
    /\ cached_file = NoFile
    /\ offset = 0
    /\ batch_size = 0
    /\ all_data = <<>>
    /\ requested = <<>>
    /\ request_failed = FALSE
    /\ returned = <<>>
    /\ calls = 0

FetchInit ==
    /\ source_name \in SourceNamePool
    /\ clock = 0
    /\ raw_dir = {}
    /\ metadata_dir = {}
    /\ api_total \in 0..MaxApi
    /\ fetch_pc = "idle"
    /\ use_cache = FALSE
    /\ max_rows = 0
    /\ cached_file = NoFile
    /\ offset = 0
    /\ batch_size = 0
    /\ all_data = <<>>
    /\ requested = <<>>
    /\ request_failed = FALSE
    /\ returned = <<>>
    /\ calls = 0

\* time passes between two calls
Tick ==
    /\ fetch_pc \in {"idle", "returned"}
    /\ clock + TickHours <= MaxClock
    /\ clock' = clock + TickHours
    /\ UNCHANGED <<source_name, raw_dir, metadata_dir, api_total, fetch_pc, use_cache, max_rows,
                   cached_file, offset, batch_size, all_data, requested,
                   request_failed, returned, calls>>
    /\ UNCHANGED <<normVars, scoreVars, reconVars, aggVars, thrVars, rerunVars, scanVars, dagVars>>

\* fetch_data up to the loop: a recent raw file is loaded and returned,
\* otherwise paging starts at offset 0 with the default batch size
CallFetchData ==
    /\ fetch_pc \in {"idle", "returned"}
    /\ calls < MaxCalls
    /\ calls' = calls + 1
    /\ \E cache \in BOOLEAN, rows_limit \in 0..MaxApi :
          /\ use_cache' = cache
          /\ max_rows' = rows_limit
          /\ cached_file' = IF cache
                            THEN find_recent_raw_file(raw_dir, source_name, clock)
                            ELSE NoFile
    /\ IF cached_file' # NoFile
       THEN /\ returned' = cached_file'.data
            /\ fetch_pc' = "returned"
       ELSE /\ returned' = <<>>
            /\ fetch_pc' = "loop"
    /\ all_data' = <<>>
    /\ offset' = 0
    /\ batch_size' = default_limit
    /\ requested' = <<>>
    /\ request_failed' = FALSE
    /\ UNCHANGED <<source_name, clock, raw_dir, metadata_dir, api_total>>
    /\ UNCHANGED <<normVars, scoreVars, reconVars, aggVars, thrVars, rerunVars, scanVars, dagVars>>

\* one iteration of "while True"
FetchIteration ==
    /\ fetch_pc = "loop"
    /\ batch_size' = next_batch_size(max_rows, offset, batch_size)
    /\ requested' = Append(requested, [offset |-> offset, limit |-> batch_size'])
    /\ \E request_ok \in BOOLEAN :
          LET batch_data == fetch_batch(api_total, offset, batch_size', request_ok)
          IN /\ request_failed' = (request_failed \/ ~request_ok)
             /\ IF batch_data = <<>>
                THEN /\ fetch_pc' = "save"
                     /\ UNCHANGED <<all_data, offset>>
                ELSE /\ all_data' = all_data \o batch_data
                     /\ offset' = offset + Len(batch_data)
                     /\ fetch_pc' =
                           IF row_limit_reached(max_rows, Len(all_data')) THEN "save"
                           ELSE IF Len(batch_data) < batch_size' THEN "save"
                           ELSE "loop"
    /\ UNCHANGED <<source_name, clock, raw_dir, metadata_dir, api_total, use_cache,
                   max_rows, cached_file, returned, calls>>
    /\ UNCHANGED <<normVars, scoreVars, reconVars, aggVars, thrVars, rerunVars, scanVars, dagVars>>

\* after the loop: fetched records are saved as a raw file and returned, an
\* empty DataFrame is returned when nothing was fetched
SaveAndReturn ==
    /\ fetch_pc = "save"
    /\ raw_dir' = IF all_data # <<>>
                  THEN save_raw_data(raw_dir, source_name, clock, all_data)
                  ELSE raw_dir
    /\ metadata_dir' = IF all_data # <<>>
                       THEN save_metadata(metadata_dir, clock, all_data, max_rows)
                       ELSE metadata_dir
    /\ returned' = all_data
    /\ fetch_pc' = "returned"
    /\ UNCHANGED <<source_name, clock, api_total, use_cache, max_rows, cached_file,
                   offset, batch_size, all_data, requested, request_failed, calls>>
    /\ UNCHANGED <<normVars, scoreVars, reconVars, aggVars, thrVars, rerunVars, scanVars, dagVars>>

-----------------------------------------------------------------------------
(* The Airflow DAG nyc_hiring_audit_pipeline                               *)

TaskIds ==
    {"setup_db_tables", "download_raw_data", "process_and_match_payroll_jobs",
     "process_lighthouse_data", "generate_posting_duration_dataset",
     "basic_validation_and_reporting"}

\* default_args['retries']
retries == 3

\* a join that waits for the payroll task only
DependenciesWithoutLighthouseJoin ==
    { <<"setup_db_tables", "download_raw_data">>,
      <<"download_raw_data", "process_and_match_payroll_jobs">>,
      <<"download_raw_data", "process_lighthouse_data">>,
      <<"process_and_match_payroll_jobs", "generate_posting_duration_dataset">>,
      <<"generate_posting_duration_dataset", "basic_validation_and_reporting">> }

\* the four ">>" lines: pairs <<upstream, downstream>>
Dependencies ==
    { <<"setup_db_tables", "download_raw_data">>,
      <<"download_raw_data", "process_and_match_payroll_jobs">>,
      <<"download_raw_data", "process_lighthouse_data">>,
      <<"process_and_match_payroll_jobs", "generate_posting_duration_dataset">>,
      <<"process_lighthouse_data", "generate_posting_duration_dataset">>,
      <<"generate_posting_duration_dataset", "basic_validation_and_reporting">> }

upstream_task_ids(t) == {u \in TaskIds : <<u, t>> \in Dependencies}

DagIdle ==
    /\ task_state = [t \in TaskIds |-> "idle"]
    /\ try_number = [t \in TaskIds |-> 0]

\* a DAG run is created: no task has a state yet
DagInit ==
    /\ task_state = [t \in TaskIds |-> "none"]
    /\ try_number = [t \in TaskIds |-> 0]

\* trigger rule all_success (the default): a task without a state, or up
\* for retry, is started once every upstream task has succeeded
StartTask ==
    /\ \E t \in TaskIds :
          /\ task_state[t] \in {"none", "up_for_retry"}
          /\ \A u \in upstream_task_ids(t) : task_state[u] = "success"
          /\ task_state' = [task_state EXCEPT ![t] = "running"]
          /\ try_number' = [try_number EXCEPT ![t] = @ + 1]
    /\ UNCHANGED <<normVars, scoreVars, reconVars, aggVars, thrVars, rerunVars, scanVars, fetchVars>>

\* the callable returned
TaskSucceeds ==
    /\ \E t \in TaskIds :
          /\ task_state[t] = "running"
          /\ task_state' = [task_state EXCEPT ![t] = "success"]
    /\ UNCHANGED try_number
    /\ UNCHANGED <<normVars, scoreVars, reconVars, aggVars, thrVars, rerunVars, scanVars, fetchVars>>

\* the callable raised (setup_error_handling re-raises as AirflowException):
\* the task is retried while tries are left, then it has failed
TaskFails ==
    /\ \E t \in TaskIds :
          /\ task_state[t] = "running"
          /\ task_state' = [task_state EXCEPT ![t] =
                               IF try_number[t] <= retries THEN "up_for_retry"
                               ELSE "failed"]
    /\ UNCHANGED try_number
    /\ UNCHANGED <<normVars, scoreVars, reconVars, aggVars, thrVars, rerunVars, scanVars, fetchVars>>

\* a task below a failed task is never started
MarkUpstreamFailed ==
    /\ \E t \in TaskIds :
          /\ task_state[t] = "none"
          /\ \E u \in upstream_task_ids(t) :
                task_state[u] \in {"failed", "upstream_failed"}
          /\ task_state' = [task_state EXCEPT ![t] = "upstream_failed"]
    /\ UNCHANGED try_number
    /\ UNCHANGED <<normVars, scoreVars, reconVars, aggVars, thrVars, rerunVars, scanVars, fetchVars>>

-----------------------------------------------------------------------------
(* Specifications *)

Init == ReconInit /\ NormIdle /\ ScoreIdle /\ AggIdle /\ ThrIdle /\ RerunIdle /\ ScanIdle /\ FetchIdle /\ DagIdle

Next ==
    \/ CreateFuzzyMatchingString
    \/ LoadPayroll
    \/ ResolvePayrollJob
    \/ AttachPayrollColumns
    \/ SaveProcessedJobs
    \/ BuildLighthouseLookup
    \/ MatchLighthouseRow
    \/ ReturnCombined

Spec == Init /\ [][Next]_vars

TwoRunsNext ==
    \/ CreateFuzzyMatchingString
    \/ LoadPayroll
    \/ ResolvePayrollJob
    \/ AttachPayrollColumns
    \/ SaveProcessedJobs
    \/ BuildLighthouseLookup
    \/ MatchLighthouseRow
    \/ ReturnCombined
    \/ RunAgain

SpecTwoRuns == Init /\ [][TwoRunsNext]_vars

NormSpecInit == NormInit /\ ScoreIdle /\ ReconIdle /\ AggIdle /\ ThrIdle /\ RerunIdle /\ ScanIdle /\ FetchIdle /\ DagIdle

NormSpecNext ==
    \/ BuildFuzzyKey
    \/ BuildLighthouseKey
    \/ CleanTitle
    \/ RenormalizeRegex
    \/ RenormalizeClean

SpecNorm == NormSpecInit /\ [][NormSpecNext]_vars

ScoreSpecInit == ScoreInit /\ NormIdle /\ ReconIdle /\ AggIdle /\ ThrIdle /\ RerunIdle /\ ScanIdle /\ FetchIdle /\ DagIdle

ScoreSpecNext == ScorePair

SpecScore == ScoreSpecInit /\ [][ScoreSpecNext]_vars

PayrollSpecInit == AggInit /\ NormIdle /\ ScoreIdle /\ ReconIdle /\ ThrIdle /\ RerunIdle /\ ScanIdle /\ FetchIdle /\ DagIdle

PayrollSpecNext ==
    \/ CreateSalaryMinMax
    \/ CreatePayrollFuzzyString
    \/ BuildSalaryLookup

SpecPayroll == PayrollSpecInit /\ [][PayrollSpecNext]_vars

ThresholdSpecInit == ThrInit /\ NormIdle /\ ScoreIdle /\ ReconIdle /\ AggIdle /\ RerunIdle /\ ScanIdle /\ FetchIdle /\ DagIdle

ThresholdSpecNext == ResolveAtThresholds

SpecThreshold == ThresholdSpecInit /\ [][ThresholdSpecNext]_vars

ScanSpecInit ==
    ScanInit /\ NormIdle /\ ScoreIdle /\ ReconIdle /\ AggIdle /\ ThrIdle /\ RerunIdle
    /\ FetchIdle /\ DagIdle

ScanSpecNext ==
    \/ ScanPayrollStyle
    \/ ScanLighthouseStyle

SpecScan == ScanSpecInit /\ [][ScanSpecNext]_vars

FetchSpecInit ==
    FetchInit /\ NormIdle /\ ScoreIdle /\ ReconIdle /\ AggIdle /\ ThrIdle /\ RerunIdle
    /\ ScanIdle /\ DagIdle

FetchSpecNext ==
    \/ Tick
    \/ CallFetchData
    \/ FetchIteration
    \/ SaveAndReturn

SpecFetch == FetchSpecInit /\ [][FetchSpecNext]_vars

DagSpecInit ==
    DagInit /\ NormIdle /\ ScoreIdle /\ ReconIdle /\ AggIdle /\ ThrIdle /\ RerunIdle
    /\ ScanIdle /\ FetchIdle

DagSpecNext ==
    \/ StartTask
    \/ TaskSucceeds
    \/ TaskFails
    \/ MarkUpstreamFailed

SpecDag == DagSpecInit /\ [][DagSpecNext]_vars

\* a call that has started runs on: the loop iterates, the result is saved
SpecFetchFair ==
    SpecFetch /\ WF_vars(FetchIteration) /\ WF_vars(SaveAndReturn)

-----------------------------------------------------------------------------
(* Properties of the resolvers and of the reconciliation passes            *)

\* the left key of job row i, from the input table
LeftKey(i) ==
    IF pass = "payroll"
    THEN create_fuzzy_matching_string(jobs[i].agency, jobs[i].business_title)
    ELSE IF Truthy(jobs[i].business_title)
         THEN clean_title(jobs[i].business_title)
         ELSE None

\* the scores of every left key against every right key the pools can give
\* rise to, tabulated once
PoolLeftKeys ==
    {create_fuzzy_matching_string(j.agency, j.business_title) : j \in JobPool}
    \cup {clean_title(j.business_title) :
             j \in {x \in JobPool : Truthy(x.business_title)}}

PoolRightKeys ==
    {r.fuzzy_match_string : r \in PayrollRowPool}
    \cup {clean_title(r.lighthouse_job_title) :
             r \in {x \in LighthouseRowPool : Truthy(x.lighthouse_job_title)}}

ScoreTable ==
    {<<a, b, ratio(a, b)>> : a \in PoolLeftKeys \ {None}, b \in PoolRightKeys \ {None}}

Score(a, b) == (CHOOSE t \in ScoreTable : t[1] = a /\ t[2] = b)[3]

\* the candidates: the non-empty keys of the lookup (an empty key is the
\* "no key" sentinel and stands for no candidate)
CandidateKeys == {lookup_keys[k] : k \in 1..Len(lookup_keys)} \ {<<>>}

\* the highest similarity of a left key over the candidates; 0.0 for a null
\* or empty left key and for an empty candidate set
HighestScore(left) ==
    IF ~Truthy(left) \/ CandidateKeys = {} THEN <<0, 1>>
    ELSE LET scores == {Score(left, c) : c \in CandidateKeys}
         IN CHOOSE s \in scores : \A t \in scores : RatLeq(t, s)

PassThreshold ==
    IF pass = "payroll" THEN Threshold(PayrollThresholdPct)
    ELSE Threshold(LighthouseThresholdPct)

KeyIndex(key) == CHOOSE k \in 1..Len(lookup_keys) : lookup_keys[k] = key

Matched(i) == resolved[i].best_match # None

Completed == stage = "done" /\ columns = "ok"

\* the match fields of output row i
OutputMatch(i) ==
    IF pass = "payroll" THEN output[i].best_payroll_match
    ELSE output[i].lighthouse_match_title

OutputScore(i) ==
    IF pass = "payroll" THEN output[i].best_match_score
    ELSE output[i].lighthouse_match_score

SameJob(row, job) ==
    /\ row.agency = job.agency
    /\ row.business_title = job.business_title
    /\ row.posting_duration_days = job.posting_duration_days

\* C1: in both resolvers a match is returned for a left key if and only if
\* the highest similarity score over the candidates is at least the
\* threshold of the pass (0.85 for payroll, 0.70 for lighthouse).
C1_MatchIffHighestScoreAtLeastThreshold ==
    \A i \in 1..Len(resolved) :
        Matched(i) <=> RatLeq(PassThreshold, HighestScore(LeftKey(i)))

\* a run in which one job is matched on a score below 1.0 and another job
\* is left unmatched although a candidate scores above 0.0
C1_Witness ==
    \E i, j \in 1..Len(resolved) :
        /\ Matched(i)
        /\ RatLess(resolved[i].best_score, <<1, 1>>)
        /\ ~Matched(j)
        /\ RatLess(<<0, 1>>, HighestScore(LeftKey(j)))

\* C2: whenever a resolver returns a match, no candidate scores strictly
\* higher against the left key than the returned key.
C2_ReturnedMatchIsMaximum ==
    \A i \in 1..Len(resolved) :
        Matched(i) =>
            \A c \in CandidateKeys :
                RatLeq(Score(LeftKey(i), c),
                       Score(LeftKey(i), resolved[i].best_match))

\* a match that is not the first candidate and beats an earlier candidate
\* which itself clears the threshold
C2_Witness ==
    \E i \in 1..Len(resolved) :
        /\ Matched(i)
        /\ Len(lookup_keys) >= 2
        /\ resolved[i].best_match = lookup_keys[2]
        /\ RatLeq(PassThreshold, Score(LeftKey(i), lookup_keys[1]))
        /\ RatLess(Score(LeftKey(i), lookup_keys[1]),
                   Score(LeftKey(i), lookup_keys[2]))

\* the keys of the lookup stand in the order in which the right-side rows
\* first brought them in
RightKeyOfRow(row) ==
    IF pass = "payroll"
    THEN IF Truthy(row.fuzzy_match_string) /\ row.salary_min # NoNum
            /\ row.salary_max # NoNum
         THEN row.fuzzy_match_string ELSE None
    ELSE IF Truthy(row.lighthouse_job_title)
         THEN clean_title(row.lighthouse_job_title) ELSE None

RightRows == IF pass = "payroll" THEN payroll_df ELSE lighthouse_processed

FirstRowOf(key) ==
    CHOOSE r \in 1..Len(RightRows) :
        /\ RightKeyOfRow(RightRows[r]) = key
        /\ \A q \in 1..(r - 1) : RightKeyOfRow(RightRows[q]) # key

\* C3: when several candidates share the highest score for a left key, the
\* resolver returns the one first inserted into the lookup, that is the one
\* whose first right-side row comes earliest.
C3_TieKeepsFirstInserted ==
    \A i \in 1..Len(resolved) :
        Matched(i) =>
            \A c \in CandidateKeys :
                RatEq(Score(LeftKey(i), c),
                      Score(LeftKey(i), resolved[i].best_match))
                => /\ KeyIndex(resolved[i].best_match) <= KeyIndex(c)
                   /\ FirstRowOf(resolved[i].best_match) <= FirstRowOf(c)

\* two different candidates tie on the highest score and one is returned
C3_Witness ==
    \E i \in 1..Len(resolved) :
        /\ Matched(i)
        /\ \E c \in CandidateKeys :
              /\ c # resolved[i].best_match
              /\ RatEq(Score(LeftKey(i), c),
                       Score(LeftKey(i), resolved[i].best_match))

\* C4: a pass that ran outputs exactly one record per input job row, in the
\* input order, whether or not the row matched.
C4_OneOutputRowPerJobInOrder ==
    Completed =>
        /\ Len(output) = Len(jobs)
        /\ \A i \in 1..Len(jobs) : SameJob(output[i], jobs[i])

\* a finished run over two different job rows, the first unmatched and the
\* second matched
C4_Witness ==
    /\ Completed
    /\ Len(resolved) = 2
    /\ jobs[1] # jobs[2]
    /\ ~Matched(1)
    /\ Matched(2)

\* C5: an unmatched record carries no matched key and no payload: in the
\* payroll pass the four match fields are null together or non-null
\* together; in the lighthouse pass an unmatched row has a null title, a
\* null score and null in every payload field.
C5_UnmatchedFieldsAbsent ==
    Completed =>
        \A i \in 1..Len(output) :
            IF pass = "payroll"
            THEN \/ /\ output[i].best_payroll_match = None
                    /\ output[i].best_match_score = NoNum
                    /\ output[i].payroll_salary_min = NoNum
                    /\ output[i].payroll_salary_max = NoNum
                 \/ /\ output[i].best_payroll_match # None
                    /\ output[i].best_match_score # NoNum
                    /\ output[i].payroll_salary_min # NoNum
                    /\ output[i].payroll_salary_max # NoNum
            ELSE ~Matched(i) =>
                    /\ output[i].lighthouse_match_title = None
                    /\ output[i].lighthouse_match_score = NoNum
                    /\ output[i].lighthouse_median_posting_duration = NoNum
                    /\ output[i].lighthouse_total_postings = NoNum

\* a finished payroll run with a row left unmatched although a candidate
\* scores above 0.0, next to a matched row
C5_Witness ==
    /\ Completed
    /\ pass = "payroll"
    /\ \E i, j \in 1..Len(resolved) :
          /\ ~Matched(i)
          /\ RatLess(<<0, 1>>, HighestScore(LeftKey(i)))
          /\ Matched(j)

\* the right side is empty: no payroll file or no payroll rows, no
\* benchmark rows
RightSideEmpty ==
    IF pass = "payroll"
    THEN payroll_file = "absent" \/ (payroll_file = "ok" /\ payroll_df = <<>>)
    ELSE lighthouse_processed = <<>>

\* C6 as stated: with an empty right side every left record is unmatched
\* and its reported score is 0.0.
C6_EmptyRightScoreZero ==
    (Completed /\ RightSideEmpty) =>
        \A i \in 1..Len(output) :
            /\ OutputMatch(i) = None
            /\ OutputScore(i) # NoNum
            /\ RatEq(OutputScore(i), <<0, 1>>)

\* C6 amended: with an empty right side every left record is unmatched and
\* its reported score is absent (null); 0.0 is only the best score the
\* lighthouse resolver hands back to its caller, which does not record it.
C6_EmptyRightScoreAbsent ==
    (Completed /\ RightSideEmpty) =>
        \A i \in 1..Len(output) :
            /\ OutputMatch(i) = None
            /\ OutputScore(i) = NoNum
            /\ (pass = "lighthouse" => resolved[i].best_score = <<0, 1>>)

\* a finished lighthouse run over an empty benchmark with a usable job title
C6_Witness ==
    /\ Completed
    /\ RightSideEmpty
    /\ pass = "lighthouse"
    /\ Len(output) >= 1
    /\ Truthy(LeftKey(1))

-----------------------------------------------------------------------------
(* Properties of the similarity scorer                                     *)

Scored == scoreAB # NoNum

IsSubstring(a, b) ==
    \E k \in 0..(Len(b) - Len(a)) : SubSeq(b, k + 1, k + Len(a)) = a

\* C8 as stated: the score is symmetric, score(a,b) = score(b,a) for all
\* pairs of strings.
C8_ScoreSymmetric ==
    Scored => RatEq(scoreAB, scoreBA)

\* C8 amended: for strings below the autojunk length the two orders share
\* the denominator T and are both zero or both positive, and they are equal
\* when one string is a contiguous part of the other; otherwise score(a,b)
\* and score(b,a) may differ.
C8_ScoreSymmetricOnSubstrings ==
    (Scored /\ Len(strA) < AutojunkLen /\ Len(strB) < AutojunkLen) =>
        /\ scoreAB[2] = scoreBA[2]
        /\ (scoreAB[1] = 0 <=> scoreBA[1] = 0)
        /\ (IsSubstring(strA, strB) \/ IsSubstring(strB, strA)
               => RatEq(scoreAB, scoreBA))

\* a scored pair of different strings, one a proper part of the other
C8_Witness ==
    /\ Scored
    /\ strA # <<>>
    /\ strA # strB
    /\ IsSubstring(strA, strB)
    /\ RatEq(scoreAB, scoreBA)
    /\ RatLess(scoreAB, <<1, 1>>)

\* C9: 0 <= score(a,b) <= 1 for all strings, that is 0 <= 2*M <= T, and
\* score(a,a) = 1 for every non-empty a.
C9_ScoreBounds ==
    Scored =>
        /\ 0 <= scoreAB[1] /\ scoreAB[1] <= scoreAB[2]
        /\ 0 <= scoreBA[1] /\ scoreBA[1] <= scoreBA[2]
        /\ (strA = strB /\ strA # <<>> => RatEq(scoreAB, <<1, 1>>))

\* a non-empty string scored against itself
C9_Witness ==
    /\ Scored
    /\ strA = strB
    /\ Len(strA) >= 2
    /\ scoreAB = <<2 * Len(strA), 2 * Len(strA)>>

-----------------------------------------------------------------------------
(* Properties of the normalizers                                           *)

\* C10: key normalization is idempotent for each normalizer of the code:
\* normalizing a key the normalizer produced returns the same key.
C10_NormalizationIdempotent ==
    normAgain # None => normAgain = normKey

\* the regex-based builders alone are idempotent
RegexBuildersIdempotent ==
    (normKind \in {"fuzzy", "regex"} /\ normAgain # None) => normAgain = normKey

-----------------------------------------------------------------------------
(* Properties of the payroll aggregation                                   *)

NormalizedKeyOf(row) ==
    create_fuzzy_matching_string(row.agency_name, row.title_description)

\* the base salaries of all raw payroll rows that share a normalized key
SalariesUnder(key) ==
    {raw_payroll[j].base_salary_num[1] :
        j \in {i \in 1..Len(raw_payroll) :
                  /\ NormalizedKeyOf(raw_payroll[i]) = key
                  /\ raw_payroll[i].base_salary_num # NoNum}}

\* the raw spellings (agency, title) found under a normalized key
SpellingsUnder(key) ==
    {<<raw_payroll[i].agency_name, raw_payroll[i].title_description>> :
        i \in {j \in 1..Len(raw_payroll) : NormalizedKeyOf(raw_payroll[j]) = key}}

\* C11: for every normalized key shared by payroll rows, the group used for
\* matching holds the minimum and the maximum base salary over all payroll
\* rows sharing that key, also when the rows differ in raw spelling.
C11_GroupHoldsMinMaxOfKey ==
    agg_stage = "lookup" =>
        \A i \in 1..Len(raw_payroll) :
            LET key == NormalizedKeyOf(raw_payroll[i])
            IN SalariesUnder(key) # {} =>
                  /\ key \in DOMAIN agg_lookup
                  /\ RatEq(agg_lookup[key].avg_min, Num(MinOf(SalariesUnder(key))))
                  /\ RatEq(agg_lookup[key].avg_max, Num(MaxOf(SalariesUnder(key))))

\* the group does hold the minimum and the maximum when all rows under the
\* key are spelled alike
SingleSpellingGroupHoldsMinMax ==
    agg_stage = "lookup" =>
        \A i \in 1..Len(raw_payroll) :
            LET key == NormalizedKeyOf(raw_payroll[i])
            IN (SalariesUnder(key) # {} /\ Cardinality(SpellingsUnder(key)) = 1) =>
                  /\ key \in DOMAIN agg_lookup
                  /\ RatEq(agg_lookup[key].avg_min, Num(MinOf(SalariesUnder(key))))
                  /\ RatEq(agg_lookup[key].avg_max, Num(MaxOf(SalariesUnder(key))))

-----------------------------------------------------------------------------
(* Properties of the lookups                                               *)

\* the lookup of the running pass has been built
LookupBuilt ==
    /\ stage \in {"resolving", "done"}
    /\ columns = "ok"
    /\ pass = "payroll" => payroll_file = "ok"

\* the right-side rows that carry a given key
RowsUnder(key) == {r \in 1..Len(RightRows) : RightKeyOfRow(RightRows[r]) = key}

RECURSIVE SumOver(_, _)
SumOver(f, S) ==
    IF S = {} THEN 0
    ELSE LET x == CHOOSE y \in S : TRUE IN f[x] + SumOver(f, S \ {x})

\* the group under a key accounts for the attributes of right-side row r
GroupKeepsRow(key, r) ==
    IF pass = "payroll"
    THEN /\ lookup[key].avg_min =
               <<SumOver([q \in RowsUnder(key) |-> payroll_df[q].salary_min[1]],
                         RowsUnder(key)),
                 Cardinality(RowsUnder(key))>>
         /\ lookup[key].avg_max =
               <<SumOver([q \in RowsUnder(key) |-> payroll_df[q].salary_max[1]],
                         RowsUnder(key)),
                 Cardinality(RowsUnder(key))>>
    ELSE /\ lookup[key].original_title = RightRows[r].lighthouse_job_title
         /\ lookup[key].median_duration =
               RightRows[r].lighthouse_median_posting_duration
         /\ lookup[key].total_postings = RightRows[r].lighthouse_total_postings

\* C12: once the lookup is built its keys are unique, every right-side
\* record with a non-empty key is in the group of its normalized key, and
\* the group still accounts for the attributes of every such record: none
\* is lost or replaced because another record shares the key.
C12_EveryRecordKeptInItsGroup ==
    LookupBuilt =>
        /\ \A a, b \in 1..Len(lookup_keys) :
              lookup_keys[a] = lookup_keys[b] => a = b
        /\ DOMAIN lookup = {lookup_keys[k] : k \in 1..Len(lookup_keys)}
        /\ \A r \in 1..Len(RightRows) :
              LET key == RightKeyOfRow(RightRows[r])
              IN Truthy(key) =>
                    /\ key \in DOMAIN lookup
                    /\ GroupKeepsRow(key, r)

\* the same, for the payroll lookup alone
PayrollLookupKeepsEveryRecord ==
    pass = "payroll" => C12_EveryRecordKeptInItsGroup

-----------------------------------------------------------------------------
(* Properties of the variance fields                                       *)

\* output row i is matched and has both durations
HasBothDurations(i) ==
    /\ Matched(i)
    /\ output[i].posting_duration_days # NoNum
    /\ output[i].lighthouse_median_posting_duration # NoNum

Actual(i) == output[i].posting_duration_days[1]
Expected(i) == output[i].lighthouse_median_posting_duration[1]

\* C13: for a matched record with both durations present, duration_variance
\* is actual - expected, and duration_variance_pct is
\* (actual - expected) / expected * 100 whenever expected is not 0, negative
\* expected values included; when expected is 0 the percentage is absent.
C13_VarianceAndPercentage ==
    (Completed /\ pass = "lighthouse") =>
        \A i \in 1..Len(output) :
            HasBothDurations(i) =>
                /\ output[i].duration_variance = Num(Actual(i) - Expected(i))
                /\ IF Expected(i) # 0
                   THEN /\ output[i].duration_variance_pct # NoNum
                        /\ RatEq(output[i].duration_variance_pct,
                                 <<(Actual(i) - Expected(i)) * 100, Expected(i)>>)
                   ELSE output[i].duration_variance_pct = NoNum

\* the same with the percentage required for positive expected values only
VarianceAndPercentageOnPositiveExpected ==
    (Completed /\ pass = "lighthouse") =>
        \A i \in 1..Len(output) :
            HasBothDurations(i) =>
                /\ output[i].duration_variance = Num(Actual(i) - Expected(i))
                /\ IF Expected(i) > 0
                   THEN /\ output[i].duration_variance_pct # NoNum
                        /\ RatEq(output[i].duration_variance_pct,
                                 <<(Actual(i) - Expected(i)) * 100, Expected(i)>>)
                   ELSE output[i].duration_variance_pct = NoNum

\* C14: duration_variance and duration_variance_pct are both absent
\* whenever the record is unmatched, the expected duration is missing, or
\* the expected duration is zero.
C14_VarianceFieldsJointlyAbsent ==
    (Completed /\ pass = "lighthouse") =>
        \A i \in 1..Len(output) :
            (\/ ~Matched(i)
             \/ output[i].lighthouse_median_posting_duration = NoNum
             \/ output[i].lighthouse_median_posting_duration = Num(0))
            => /\ output[i].duration_variance = NoNum
               /\ output[i].duration_variance_pct = NoNum

\* the two fields are both absent when the record is unmatched or a
\* duration is missing
VarianceFieldsAbsentWithoutDurations ==
    (Completed /\ pass = "lighthouse") =>
        \A i \in 1..Len(output) :
            (\/ ~Matched(i)
             \/ output[i].lighthouse_median_posting_duration = NoNum
             \/ output[i].posting_duration_days = NoNum)
            => /\ output[i].duration_variance = NoNum
               /\ output[i].duration_variance_pct = NoNum

-----------------------------------------------------------------------------
(* Properties of failure handling                                          *)

\* a stage of the run raises: the payroll file cannot be read, or the
\* scoring of a job row raises
RunFails ==
    \/ pass = "payroll" /\ payroll_file = "unreadable"
    \/ fault # 0

\* C15: when a stage of a reconciliation run fails, the run aborts: no
\* output table is returned and none is saved as if the run had completed.
C15_FailureAbortsRun ==
    RunFails => (output = NoTable /\ saved = NoTable)

\* the lighthouse pass alone does abort without a table
LighthouseFailureAbortsRun ==
    (pass = "lighthouse" /\ (fault # 0 \/ stage = "failed")) =>
        (output = NoTable /\ saved = NoTable)

-----------------------------------------------------------------------------
(* Properties of the run statistics                                        *)

StatsComputed == match_stats # NoStats

MatchedRows == {i \in 1..Len(resolved) : Matched(i)}

\* the scores the resolver returned for the matched rows, in row order
MatchedScores ==
    LET picked == SelectSeq(resolved, LAMBDA m : m.best_match # None)
    IN [i \in 1..Len(picked) |-> picked[i].best_score]

StatsMatchedCount ==
    IF pass = "payroll" THEN match_stats.high_quality_matches_85_plus
    ELSE match_stats.jobs_with_lighthouse_match

\* the statistics report the number matched and the mean and median score
\* over the matched records
StatsReportMatchedScores ==
    StatsComputed =>
        /\ StatsMatchedCount = Cardinality(MatchedRows)
        /\ IF MatchedRows = {}
           THEN /\ match_stats.avg_match_score = NoNum
                /\ match_stats.median_match_score = NoNum
           ELSE /\ RatEq(match_stats.avg_match_score,
                         <<SumRat(MatchedScores)[1],
                           SumRat(MatchedScores)[2] * Cardinality(MatchedRows)>>)
                /\ \E lo, hi \in MatchedRows :
                      /\ RatLeq(resolved[lo].best_score,
                                match_stats.median_match_score)
                      /\ RatLeq(match_stats.median_match_score,
                                resolved[hi].best_score)
                      /\ 2 * Cardinality({i \in MatchedRows :
                              RatLess(resolved[i].best_score,
                                      match_stats.median_match_score)})
                            <= Cardinality(MatchedRows)
                      /\ 2 * Cardinality({i \in MatchedRows :
                              RatLess(match_stats.median_match_score,
                                      resolved[i].best_score)})
                            <= Cardinality(MatchedRows)

\* C16: the statistics of a pass report the total number of left records,
\* matched and unmatched alike (total_jobs equals the number of input job
\* rows), the number matched, and the mean and median score over the
\* matched records.
C16_StatsReportTotalAndMatched ==
    StatsComputed =>
        /\ match_stats.total_jobs = Len(jobs)
        /\ StatsReportMatchedScores

-----------------------------------------------------------------------------
(* Properties of per-record failures                                       *)

\* C17: when the scoring of one job row raises, only that row is excluded:
\* every other job row of the run is in the output with its own match
\* result (matched exactly when its highest score reaches the threshold).
C17_FailureExcludesOnlyThatRecord ==
    (fault # 0 /\ RunEnded) =>
        \A j \in 1..Len(jobs) :
            j # fault =>
                /\ output # NoTable
                /\ j \in DOMAIN output
                /\ SameJob(output[j], jobs[j])
                /\ (OutputMatch(j) # None
                      <=> RatLeq(PassThreshold, HighestScore(LeftKey(j))))

-----------------------------------------------------------------------------
(* Properties of missing columns                                           *)

\* C18: when a required column is missing from a whole input table, the
\* call fails hard before any matching starts: no job row is resolved, no
\* output records are produced or saved, and the call does not return
\* normally.
C18_MissingColumnIsHardFailure ==
    columns # "ok" =>
        /\ resolved = <<>>
        /\ output \in {NoTable, <<>>}
        /\ saved \in {NoTable, <<>>}
        /\ RunEnded => stage = "failed"

\* a job table without business_title makes the payroll pass raise before
\* any matching, and in no pass does a missing left or benchmark column
\* lead to matching or to output records
MissingJobsColumnFailsPayrollPass ==
    /\ (pass = "payroll" /\ columns = "jobs") => C18_MissingColumnIsHardFailure
    /\ columns \in {"jobs", "lighthouse"} =>
          /\ resolved = <<>>
          /\ output \in {NoTable, <<>>}
          /\ saved = NoTable

-----------------------------------------------------------------------------
(* Properties of the match threshold                                       *)

\* C19: for fixed job rows and fixed candidates, every job row matched at
\* the raised threshold is also matched at the lower one, so raising the
\* threshold never increases the number of matched records.
C19_ThresholdMonotone ==
    thr_stage = "done" =>
        /\ matched_hi \subseteq matched_lo
        /\ Cardinality(matched_hi) <= Cardinality(matched_lo)

\* raising the threshold lost one match and kept another
C19_Witness ==
    /\ thr_stage = "done"
    /\ matched_hi # {}
    /\ matched_hi # matched_lo
    /\ Cardinality(matched_hi) < Cardinality(matched_lo)

-----------------------------------------------------------------------------
(* Determinism of a pass                                                   *)

-----------------------------------------------------------------------------
(* The park worker scenario                                                *)

ScenarioResolved ==
    /\ scan_left = ParksRecreationParkworker
    /\ scan_rows = << [fuzzy_match_string |-> ParksDeptParkWorker,
                       salary_min |-> Num(40000), salary_max |-> Num(55000)],
                      [fuzzy_match_string |-> SanitationDriver,
                       salary_min |-> Num(50000), salary_max |-> Num(60000)] >>
    /\ scan_payroll # NotScanned

FirstCandidateMatched ==
    /\ scan_payroll.best_match = ParksDeptParkWorker
    /\ RatEq(scan_payroll.salary_min, Num(40000))
    /\ RatEq(scan_payroll.salary_max, Num(55000))

\* C21 as stated: resolving "parks_recreation_parkworker" against
\* "parks_dept_park_worker" (40000-55000) and "sanitation_driver"
\* (50000-60000) at threshold 0.85 returns the first candidate with a score
\* of at least 0.85 and its salaries.
C21_ScenarioMatchesFirstCandidate ==
    (ScenarioResolved /\ scan_threshold = PayrollThresholdPct) =>
        /\ FirstCandidateMatched
        /\ RatLeq(Threshold(PayrollThresholdPct), scan_payroll.best_score)

\* C21 amended: the first candidate scores 38/49 (about 0.776): it is the
\* match, with salaries 40000 and 55000, at every threshold up to that score
\* (0.70), and at 0.85 and above no candidate is returned and key, score
\* and salaries are absent; the second candidate is never selected.
C21_ScenarioScoreBelowPayrollThreshold ==
    ScenarioResolved =>
        /\ RatEq(ratio(scan_left, ParksDeptParkWorker), <<38, 49>>)
        /\ scan_payroll.best_match # SanitationDriver
        /\ IF RatLeq(Threshold(scan_threshold), <<38, 49>>)
           THEN /\ FirstCandidateMatched
                /\ RatEq(scan_payroll.best_score, <<38, 49>>)
           ELSE scan_payroll = NoPayrollMatch(scan_left)

C21_Witness ==
    /\ ScenarioResolved
    /\ scan_threshold = PayrollThresholdPct
    /\ scan_payroll.best_match = None

-----------------------------------------------------------------------------
(* Order of the stages of a run                                            *)

StageRank(stage_name) ==
    CASE stage_name = "Normalizing" -> 1
      [] stage_name = "Aggregating" -> 2
      [] stage_name = "Resolving" -> 3
      [] stage_name = "ComputingVariance" -> 4

StepsOfRow(side, row) ==
    SelectSeq(steps, LAMBDA st : st.side = side /\ st.row = row)

RanksIncrease(sq) ==
    \A i, j \in 1..Len(sq) : i < j => StageRank(sq[i].stage) < StageRank(sq[j].stage)

\* C22 as stated: a run enters Normalizing, Aggregating, Resolving and
\* ComputingVariance in that order and never re-enters an earlier stage
\* once a later one has begun.
C22_StagesNeverGoBack ==
    \A i, j \in 1..Len(steps) :
        i < j => StageRank(steps[i].stage) <= StageRank(steps[j].stage)

\* C22 amended: the order holds per record, not per run. The lookup is
\* complete before the first job row is resolved and nothing of the right
\* side is normalized or stored afterwards; each right-side row is
\* normalized before it is stored; each job row is normalized, then
\* resolved, then its variance computed; job rows are taken in order; and
\* the payroll pass, which works on whole columns, never goes back.
C22_StagesInOrderPerRecord ==
    /\ \A i, j \in 1..Len(steps) :
          (i < j /\ steps[i].side = "left" /\ steps[i].row > 0) =>
              /\ steps[j].side = "left"
              /\ steps[i].row <= steps[j].row
    /\ \A row \in 0..Len(jobs) : RanksIncrease(StepsOfRow("left", row))
    /\ \A row \in 0..Len(lighthouse_processed) : RanksIncrease(StepsOfRow("right", row))
    /\ pass = "payroll" => C22_StagesNeverGoBack

\* a lighthouse run over two job rows has ended: the second row was
\* normalized and resolved after the variance of the first was computed
C22_Witness ==
    /\ pass = "lighthouse"
    /\ stage = "done"
    /\ \E i, j \in 1..Len(steps) :
          /\ i < j
          /\ steps[i] = Step("ComputingVariance", "left", 1)
          /\ steps[j] = Step("Resolving", "left", 2)

-----------------------------------------------------------------------------
(* The raw-file cache                                                      *)

\* the raw files save_raw_data wrote for this fetcher within max_age_hours
RecentRawFiles ==
    {f \in raw_dir :
        /\ \E c \in 0..clock : f.stem = raw_file_stem(source_name, c)
        /\ StemTime(f.stem) > clock - max_age_hours}

MostRecentRawFile ==
    CHOOSE f \in RecentRawFiles :
        \A g \in RecentRawFiles : StemTime(g.stem) <= StemTime(f.stem)

RawFileRoundTrip ==
    /\ RecentRawFiles # {} =>
          find_recent_raw_file(raw_dir, source_name, clock) = MostRecentRawFile
    /\ (fetch_pc \in {"loop", "save"} /\ use_cache) => RecentRawFiles = {}
    /\ (fetch_pc = "returned" /\ cached_file # NoFile) =>
          /\ requested = <<>>
          /\ returned = cached_file.data

\* C23: once save_raw_data has written a raw file for a fetcher,
\* find_recent_raw_file within max_age_hours returns the most recent such
\* file, so fetch_data(use_cache=True) returns the cached records and sends
\* no request.
C23_SavedRawFileIsFound == RawFileRoundTrip

\* the round trip for a source name that has no '_' in it
RawFileRoundTripWithoutUnderscore ==
    Len(source_name) = 1 => RawFileRoundTrip

\* a file saved under a source name with '_' is never found
RawFileNeverFoundWithUnderscore ==
    Len(source_name) > 1 =>
        /\ find_recent_raw_file(raw_dir, source_name, clock) = NoFile
        /\ cached_file = NoFile

-----------------------------------------------------------------------------
(* The paging loop                                                         *)

\* the call went into the paging loop with a row limit
PagedWithRowLimit == calls >= 1 /\ cached_file = NoFile /\ max_rows > 0

\* C27: with max_rows = N > 0, every request of the paging loop asks for at
\* most N minus the number of records already fetched (its offset), and the
\* call returns at most N records.
C27_BatchWithinRowLimit ==
    PagedWithRowLimit =>
        /\ \A k \in 1..Len(requested) :
              requested[k].limit <= max_rows - requested[k].offset
        /\ Len(all_data) <= max_rows
        /\ Len(returned) <= max_rows

\* a call with a row limit returned after a request for less than the
\* default batch size, with exactly max_rows records
C27_Witness ==
    /\ PagedWithRowLimit
    /\ fetch_pc = "returned"
    /\ Len(requested) >= 2
    /\ requested[Len(requested)].limit < default_limit
    /\ Len(returned) = max_rows

-----------------------------------------------------------------------------
(* A request that fails in the middle of paging                            *)

\* the call returned after a failed request that followed a fetched batch
EndedByFailedRequest ==
    /\ fetch_pc = "returned"
    /\ cached_file = NoFile
    /\ request_failed
    /\ all_data # <<>>

\* the records fetched so far are saved with metadata and returned
FailedRequestSavesAndReturns ==
    EndedByFailedRequest =>
        /\ returned = all_data
        /\ \E c \in 0..clock :
              /\ [stem |-> raw_file_stem(source_name, c), data |-> all_data] \in raw_dir
              /\ \E md \in metadata_dir :
                    /\ md.fetch_timestamp = get_timestamp(c)
                    /\ md.total_records = Len(all_data)

\* the recent raw files of this fetcher that hold fewer records than were
\* asked for and than the API holds
TruncatedRawFiles ==
    {f \in RecentRawFiles :
        \E md \in metadata_dir :
            /\ f.stem = source_name \o md.fetch_timestamp
            /\ md.total_records = Len(f.data)
            /\ md.total_records < api_total
            /\ (md.max_rows_requested = 0 \/ md.total_records < md.max_rows_requested)}

\* C29: a request that fails after a fetched batch ends the paging: the
\* records fetched so far are saved as a raw file with metadata and
\* returned as a normal result, and a later cached read returns this
\* truncated set instead of fetching again.
C29_FailedRequestEndsDataSilently ==
    /\ FailedRequestSavesAndReturns
    /\ (fetch_pc \in {"loop", "save"} /\ use_cache) => TruncatedRawFiles = {}

-----------------------------------------------------------------------------
(* The payload of a match                                                  *)

\* what the resolver returned for job row i is the lookup entry of its key
ResolvedPayloadFromKey(i) ==
    LET m == resolved[i]
    IN m.best_match # None =>
          /\ m.best_match \in DOMAIN lookup
          /\ IF pass = "payroll"
             THEN /\ m.salary_min = lookup[m.best_match].avg_min
                  /\ m.salary_max = lookup[m.best_match].avg_max
             ELSE m.best_data = lookup[m.best_match]

\* what output row i carries is the lookup entry of the key of job row i
OutputPayloadFromKey(i) ==
    LET m == resolved[i]
    IN m.best_match # None =>
          IF pass = "payroll"
          THEN /\ output[i].best_payroll_match = m.best_match
               /\ output[i].payroll_salary_min = lookup[m.best_match].avg_min
               /\ output[i].payroll_salary_max = lookup[m.best_match].avg_max
          ELSE /\ output[i].lighthouse_match_title =
                     lookup[m.best_match].original_title
               /\ output[i].lighthouse_median_posting_duration =
                     lookup[m.best_match].median_duration
               /\ output[i].lighthouse_total_postings =
                     lookup[m.best_match].total_postings

\* C24: whenever a resolver returns a matched key, the payload returned
\* with it (avg_min/avg_max for payroll; original title, median duration
\* and total postings for lighthouse) is the entry stored in the lookup
\* under that key, in the resolver's result and in the output row.
C24_PayloadIsEntryOfReturnedKey ==
    /\ \A i \in 1..Len(resolved) : ResolvedPayloadFromKey(i)
    /\ (stage = "done" /\ output # NoTable /\ Len(output) = Len(resolved)) =>
          \A i \in 1..Len(output) : OutputPayloadFromKey(i)

\* a payroll run has ended with a row matched to a key that is not the last
\* of the lookup, whose entry differs from the entry of the last key
C24_Witness ==
    /\ pass = "payroll"
    /\ stage = "done"
    /\ output # NoTable
    /\ \E i \in 1..Len(resolved) :
          /\ resolved[i].best_match # None
          /\ resolved[i].best_match # lookup_keys[Len(lookup_keys)]
          /\ lookup[resolved[i].best_match] # lookup[lookup_keys[Len(lookup_keys)]]
          /\ output[i].payroll_salary_min = lookup[resolved[i].best_match].avg_min

-----------------------------------------------------------------------------
(* The two candidate scans compared                                        *)

BothScanned == scan_payroll # NotScanned /\ scan_lighthouse # NotScanned

\* C25: for the same left key, candidates and threshold above 0, the scan
\* of find_best_match_with_salary (strict maximum, threshold tested after
\* the scan) and the scan of find_best_lighthouse_match (threshold tested
\* on each replacement) match in the same cases, with the same key and the
\* same score.
C25_ScansAgree ==
    (BothScanned /\ scan_threshold > 0) =>
        /\ scan_payroll.best_match = scan_lighthouse.best_match
        /\ scan_payroll.best_match # None =>
              RatEq(scan_payroll.best_score, scan_lighthouse.best_score)

\* both scans ran over two candidates with different keys that score the
\* same against the left key and reach the threshold, and returned the first
C25_Witness ==
    /\ BothScanned
    /\ Len(scan_rows) = 2
    /\ scan_rows[1].fuzzy_match_string # scan_rows[2].fuzzy_match_string
    /\ RatEq(ratio(scan_left, scan_rows[1].fuzzy_match_string),
             ratio(scan_left, scan_rows[2].fuzzy_match_string))
    /\ scan_payroll.best_match = scan_rows[1].fuzzy_match_string
    /\ scan_lighthouse.best_match = scan_rows[1].fuzzy_match_string

-----------------------------------------------------------------------------
(* The two title normalizers of the lighthouse processor                   *)

\* the key either normalizer built equals the key the other one gives
TitleNormalizersAgree ==
    /\ normKind = "regex" => normKey = clean_title(rawTitle)
    /\ normKind = "clean" => normKey = lighthouse_fuzzy_match_string(rawTitle)

\* C26: for every job title, the key written to
\* lighthouse_fuzzy_match_string by create_analysis_columns equals the key
\* computed for the same title inside generate_posting_duration_dataset.
C26_TitleNormalizersAgree == TitleNormalizersAgree

\* the two keys agree for a title of letters, digits and whitespace only
TitleNormalizersAgreeOnAlnumTitles ==
    (\A i \in 1..Len(rawTitle) : IsAlnumOrSpace(rawTitle[i])) => TitleNormalizersAgree

-----------------------------------------------------------------------------
(* Order of the tasks of a DAG run                                         *)

\* task t is started by this step, for the first time or as a retry
Starts(t) == try_number'[t] > try_number[t]

Succeeded(t) == task_state[t] = "success"

\* C30: in every run of the DAG, under any interleaving of the two
\* processing tasks and under retries, download_raw_data starts only after
\* setup_db_tables has succeeded, the two processing tasks only after
\* download_raw_data has succeeded, generate_posting_duration_dataset only
\* after both of them have succeeded, and basic_validation_and_reporting
\* only after generate_posting_duration_dataset has succeeded.
C30_TasksStartAfterUpstreamSuccess ==
    [][ /\ Starts("download_raw_data") => Succeeded("setup_db_tables")
        /\ Starts("process_and_match_payroll_jobs") => Succeeded("download_raw_data")
        /\ Starts("process_lighthouse_data") => Succeeded("download_raw_data")
        /\ Starts("generate_posting_duration_dataset") =>
              /\ Succeeded("process_and_match_payroll_jobs")
              /\ Succeeded("process_lighthouse_data")
        /\ Starts("basic_validation_and_reporting") =>
              Succeeded("generate_posting_duration_dataset") ]_vars

\* generate_posting_duration_dataset runs in its second try, after the
\* lighthouse task succeeded in a retry and the payroll task at once
C30_Witness ==
    /\ task_state["generate_posting_duration_dataset"] = "running"
    /\ try_number["generate_posting_duration_dataset"] = 2
    /\ try_number["process_lighthouse_data"] >= 2
    /\ try_number["process_and_match_payroll_jobs"] = 1
    /\ Succeeded("process_lighthouse_data")
    /\ Succeeded("process_and_match_payroll_jobs")

=============================================================================
